---- MODULE Spec2Model ----
(***************************************************************************)
(* The nine-step comic pipeline of new_module.py: configuration,           *)
(* confirmation, journal, progress and the steps' effect on the directory  *)
(* tree.                                                                   *)
(*                                                                         *)
(* A name is a sequence of tokens: a token is one character ("0".."9",     *)
(* ".", "_", "$", " ") or a maximal run of letters kept whole ("jpg",      *)
(* "JPG", "logs").  A path is a sequence of names below the root; the      *)
(* root is <<>>.  The tree is a function from the existing paths to nodes. *)
(***************************************************************************)
EXTENDS Integers, Sequences, FiniteSets, TLC

\* ------------------------------------------------------------------ bounds
\* how many filesystem operations of one run may be made to fail; the failures
\* of one run all fall within one step, and only unattended runs see any
MaxFail == 1
\* how many confirmation prompts one run may see declined
MaxDecline == 1
\* how many journal records one rollback may be made to fail on
MaxRollbackFail == 1

\* ------------------------------------------------------------------ tokens
DigitToks == <<"0", "1", "2", "3", "4", "5", "6", "7", "8", "9">>

IsDigit(t) == \E i \in 1..10 : DigitToks[i] = t

\* every token of the model, in the order of the strings' code points; "sup2"
\* stands for a superscript two, which str.isdigit() accepts and \d does not
Alphabet ==
    << " ", "$", ".", "0", "1", "2", "3", "4", "5", "6", "7", "8", "9",
       "BIN", "DS", "Information", "JPG", "PNG", "RECYCLE", "Store", "System",
       "Volume", "_", "a", "b", "backup", "backups", "bin", "bmp", "c", "cbz", "conversion", "d",
       "ds", "gif", "information", "jpeg", "jpg", "log", "logs", "page", "png",
       "recycle", "store", "system", "tiff", "tmp", "tmpdir", "txt", "u",
       "volume", "webp", "x", "zip", "sup2" >>

Rank(t) == CHOOSE i \in 1..Len(Alphabet) : Alphabet[i] = t

\* str.lower() on one token
LowerTok(t) ==
    CASE t = "BIN" -> "bin"
      [] t = "DS" -> "ds"
      [] t = "Information" -> "information"
      [] t = "JPG" -> "jpg"
      [] t = "PNG" -> "png"
      [] t = "RECYCLE" -> "recycle"
      [] t = "Store" -> "store"
      [] t = "System" -> "system"
      [] t = "Volume" -> "volume"
      [] OTHER -> t

Lower(s) == [i \in 1..Len(s) |-> LowerTok(s[i])]

\* len() of the string a token stands for
TokLen(t) ==
    CASE t \in {"DS", "ds"} -> 2
      [] t \in {"BIN", "JPG", "PNG", "bin", "bmp", "cbz", "gif", "jpg", "log", "png",
                "tmp", "txt", "zip"} -> 3
      [] t \in {"jpeg", "logs", "page", "tiff", "webp"} -> 4
      [] t \in {"Store", "store"} -> 5
      [] t \in {"System", "Volume", "system", "volume", "tmpdir", "backup"} -> 6
      [] t \in {"RECYCLE", "recycle", "backups"} -> 7
      [] t = "conversion" -> 10
      [] t \in {"Information", "information"} -> 11
      [] OTHER -> 1

RECURSIVE StrLen(_)
StrLen(s) == IF s = <<>> THEN 0 ELSE TokLen(Head(s)) + StrLen(Tail(s))

\* lexicographic order of two token sequences by code point
SeqLess(a, b) ==
    LET n == IF Len(a) < Len(b) THEN Len(a) ELSE Len(b) IN
    \/ \E i \in 1..n : /\ \A j \in 1..(i - 1) : a[j] = b[j]
                       /\ Rank(a[i]) < Rank(b[i])
    \/ /\ \A j \in 1..n : a[j] = b[j]
       /\ Len(a) < Len(b)

\* ------------------------------------------------------------------- names
\* the suffixes the steps write and look for
ext ==
    [ jpg |-> <<".", "jpg">>,
      jpeg |-> <<".", "jpeg">>,
      zip |-> <<".", "zip">>,
      cbz |-> <<".", "cbz">> ]

\* index of the dot that starts PurePath.suffix, 0 when the name has none
SuffixAt(name) ==
    LET dots == {i \in 2..(Len(name) - 1) : name[i] = "."} IN
    IF dots = {} THEN 0 ELSE CHOOSE i \in dots : \A j \in dots : j <= i

Suffix(name) ==
    IF SuffixAt(name) = 0 THEN <<>> ELSE SubSeq(name, SuffixAt(name), Len(name))

Stem(name) ==
    IF SuffixAt(name) = 0 THEN name ELSE SubSeq(name, 1, SuffixAt(name) - 1)

WithSuffix(name, suffix) == Stem(name) \o suffix

\* f"{n:04d}"
Fmt04(n) ==
    LET d(k) == DigitToks[((n \div k) % 10) + 1] IN
    IF n < 10000 THEN <<d(1000), d(100), d(10), d(1)>>
    ELSE <<d(10000), d(1000), d(100), d(10), d(1)>>

\* str(counter) for the collision suffixes _1 .. _100
FmtInt(n) ==
    LET d(k) == DigitToks[((n \div k) % 10) + 1] IN
    IF n < 10 THEN <<d(1)>>
    ELSE IF n < 100 THEN <<d(10), d(1)>> ELSE <<d(100), d(10), d(1)>>

\* f"{stem}_{counter}{suffix}"
Suffixed(name, c) == Stem(name) \o <<"_">> \o FmtInt(c) \o Suffix(name)

\* s in name, for two strings given as token sequences
IsInfix(s, name) ==
    \E i \in 0..(Len(name) - Len(s)) : SubSeq(name, i + 1, i + Len(s)) = s

\* ------------------------------------------------------------ natural sort
LeadLen(s, dig) ==
    CHOOSE n \in 0..Len(s) :
        /\ \A i \in 1..n : IsDigit(s[i]) = dig
        /\ n = Len(s) \/ IsDigit(s[n + 1]) # dig

\* re.split(r'(\d+)', name): text, digits, text, ..., text
RECURSIVE SplitRuns(_, _)
SplitRuns(s, dig) ==
    LET split(t, n) ==
            IF dig
            THEN <<SubSeq(t, 1, n)>> \o SplitRuns(SubSeq(t, n + 1, Len(t)), FALSE)
            ELSE <<SubSeq(t, 1, n)>> \o (IF n = Len(t) THEN <<>>
                                         ELSE SplitRuns(SubSeq(t, n + 1, Len(t)), TRUE))
    IN  CHOOSE runs \in {split(t, n) : t \in {s}, n \in {LeadLen(s, dig)}} : TRUE

RECURSIVE RunVal(_)
RunVal(s) == IF s = <<>> THEN 0 ELSE RunVal(SubSeq(s, 1, Len(s) - 1)) * 10 + (CHOOSE i \in 1..10 : DigitToks[i] = s[Len(s)]) - 1

\* natural_sort_key as it would be without text.lower() and path.name.lower()
natural_sort_key_cased(name) ==
    LET isdigit(run) == run # <<>> /\ \A k \in 1..Len(run) : run[k] = "sup2"
        key(runs) ==
            IF \E i \in 1..Len(runs) : i % 2 = 1 /\ isdigit(runs[i])
            THEN <<[kind |-> "str", int |-> 0, text |-> name]>>
            ELSE [i \in 1..Len(runs) |->
                     IF i % 2 = 0 THEN [kind |-> "int", int |-> RunVal(runs[i]), text |-> <<>>]
                     ELSE [kind |-> "str", int |-> 0, text |-> runs[i]]]
    IN  CHOOSE k \in {key(runs) : runs \in {SplitRuns(name, FALSE)}} : TRUE

\* the key list: an integer at the even places, lowered text at the odd ones;
\* int() raises on a text run that isdigit() accepts, and the except branch
\* then returns the whole lowered name as the only element
natural_sort_key(name) ==
    LET isdigit(run) == run # <<>> /\ \A k \in 1..Len(run) : run[k] = "sup2"
        key(runs) ==
            IF \E i \in 1..Len(runs) : i % 2 = 1 /\ isdigit(runs[i])
            THEN <<[kind |-> "str", int |-> 0, text |-> Lower(name)]>>
            ELSE [i \in 1..Len(runs) |->
                     IF i % 2 = 0 THEN [kind |-> "int", int |-> RunVal(runs[i]), text |-> <<>>]
                     ELSE [kind |-> "str", int |-> 0, text |-> Lower(runs[i])]]
    IN  CHOOSE k \in {key(runs) : runs \in {SplitRuns(name, FALSE)}} : TRUE

\* comparing the two key lists raises TypeError: the first elements that
\* differ are an integer and a string
KeyCompareRaises(a, b) ==
    \E ka \in {natural_sort_key(a)}, kb \in {natural_sort_key(b)} :
    LET n == IF Len(ka) < Len(kb) THEN Len(ka) ELSE Len(kb)
    IN  \E i \in 1..n : /\ \A j \in 1..(i - 1) : ka[j] = kb[j]
                        /\ ka[i] # kb[i]
                        /\ ka[i].kind # kb[i].kind

\* list comparison of two keys
KeyLess(a, b) ==
    \E ka \in {natural_sort_key(a)}, kb \in {natural_sort_key(b)} :
    LET n == IF Len(ka) < Len(kb) THEN Len(ka) ELSE Len(kb)
        less(x, y) == x.int < y.int \/ (x.int = y.int /\ SeqLess(x.text, y.text))
    IN  \/ \E i \in 1..n : /\ \A j \in 1..(i - 1) : ka[j] = kb[j]
                           /\ less(ka[i], kb[i])
        \/ /\ \A j \in 1..n : ka[j] = kb[j]
           /\ Len(ka) < Len(kb)

\* the sequence of the elements of S in the strict total order before, a set
\* of pairs <<y, x>> with y ahead of x
SortBy(S, before) ==
    LET seq(T, lt) ==
            [i \in 1..Cardinality(T) |->
                CHOOSE x \in T : 1 + Cardinality({y \in T : <<y, x>> \in lt}) = i]
    IN  CHOOSE s \in {seq(T, lt) : T \in {S}, lt \in {before}} : TRUE


\* ------------------------------------------------------------- directory tree
DirNode ==
    [kind |-> "dir", page |-> 0, members |-> <<>>, readable |-> TRUE, writable |-> TRUE]

\* an image file holding page pg
FileNode(pg) ==
    [kind |-> "file", page |-> pg, members |-> <<>>, readable |-> TRUE, writable |-> TRUE]

\* an archive whose member list is ms, a sequence of [name, page]
ZipNode(ms) ==
    [kind |-> "file", page |-> 0, members |-> ms, readable |-> TRUE, writable |-> TRUE]

Root == <<>>

\* the target of a journal record that has none
NoPath == << <<>> >>

Name(p) == p[Len(p)]

Parent(p) == SubSeq(p, 1, Len(p) - 1)

Exists(f, p) == p \in DOMAIN f

IsDir(f, p) == p \in DOMAIN f /\ f[p].kind = "dir"

IsFile(f, p) == p \in DOMAIN f /\ f[p].kind = "file"

\* q is d or lies below d
IsUnder(q, d) == Len(q) >= Len(d) /\ SubSeq(q, 1, Len(d)) = d

ChildrenOf(f, d) == {q \in DOMAIN f : Len(q) = Len(d) + 1 /\ IsUnder(q, d)}

\* what open(p, 'w') / Image.save / mkdtemp leave behind
WriteNode(f, p, node) == [q \in DOMAIN f \cup {p} |-> IF q = p THEN node ELSE f[q]]

\* Path.unlink, Path.rmdir, shutil.rmtree: p and everything below it go
RmTree(f, p) == [q \in {r \in DOMAIN f : ~IsUnder(r, p)} |-> f[q]]

\* os.rename(src, dst): the subtree at src now lives at dst, replacing dst
MovePath(f, src, dst) ==
    LET stay == {q \in DOMAIN f : ~IsUnder(q, src) /\ ~IsUnder(q, dst)}
        gone == {q \in DOMAIN f : IsUnder(q, src)}
        to(q) == dst \o SubSeq(q, Len(src) + 1, Len(q))
    IN  [r \in stay \cup {to(q) : q \in gone} |->
            IF r \in stay THEN f[r]
            ELSE f[CHOOSE q \in gone : to(q) = r]]

\* ------------------------------------------------------------ configuration
SkipDirs ==
    { <<"$", "RECYCLE", ".", "BIN">>,
      <<"System", " ", "Volume", " ", "Information">>,
      <<".", "DS", "_", "Store">> }

ImageExts ==
    { <<".", "jpg">>, <<".", "jpeg">>, <<".", "png">>, <<".", "webp">>,
      <<".", "gif">>, <<".", "bmp">>, <<".", "tiff">> }

DEFAULT_CONFIG ==
    [ start_num |-> 0, backup_enabled |-> FALSE, interactive_mode |-> TRUE,
      skip_step_confirmations |-> FALSE, dry_run |-> FALSE ]

\* the start_num values a configuration file may hold
StartNums == {0, 1}

TotalSteps == 9

VARIABLES
    fs,           \* the directory tree below the working directory
    config,       \* ConfigManager.config
    saved,        \* the configuration file: [present, parseable, cfg]
    journal,      \* BackupManager.operation_log
    log,          \* the log records written so far (a set: order is not kept)
    progress,     \* ProgressManager: current_step, task_progress = num / den
    pc,           \* where main() is
    loc,          \* the locals of the step function that is running
    enumOrder,    \* the order in which the filesystem lists a directory
    nfail,        \* filesystem failures injected so far
    faultStep,    \* the step they fell in, 0 before the first
    ndecl,        \* prompts declined so far
    fs0,          \* the tree when the steps began
    calls,        \* the step functions invoked so far, in order
    rets,         \* the step functions that have returned, with their outcome
    performed,    \* the renames, moves and deletes carried out so far
    snap,         \* tree and journal when the running step was invoked
    lastConfirm,  \* what confirm_operation just did
    intended,     \* dry run: the mutations the steps would have carried out
    prompts,      \* the prompts confirm_operation has issued: [step, answer]
    lastInput,    \* what main() itself just asked the decision source
    firstRun,     \* the outcome of an earlier run on the same tree, if any
    rolled,       \* what rollback did, if it ran: the records it went through
    validated,    \* what validate_structure did when it was called on its own
    edit,         \* the edit_interactively session: how it began, how it ended
    gui           \* the window and its worker thread, when the GUI hosts the run

vars ==
    << fs, config, saved, journal, log, progress, pc, loc, enumOrder, nfail,
       faultStep, ndecl, fs0, calls, rets, performed, snap, lastConfirm, intended,
       prompts, lastInput, firstRun, rolled, validated, edit, gui >>

\* --------------------------------------------------------------- listings
\* os.listdir order: by code point, forwards or backwards
NameLess(a, b) == IF enumOrder = "fwd" THEN SeqLess(a, b) ELSE SeqLess(b, a)

PathLess(p, q) ==
    LET n == IF Len(p) < Len(q) THEN Len(p) ELSE Len(q) IN
    \/ \E i \in 1..n : /\ \A j \in 1..(i - 1) : p[j] = q[j]
                       /\ NameLess(p[i], q[i])
    \/ /\ \A j \in 1..n : p[j] = q[j]
       /\ Len(p) < Len(q)

\* Path.iterdir() of a listable directory
IterDir(f, d) ==
    LET S == ChildrenOf(f, d) IN SortBy(S, {pr \in S \X S : PathLess(pr[1], pr[2])})

\* iterdir() raises on d
CannotList(f, d) == ~IsDir(f, d) \/ ~f[d].readable

\* a directory above p cannot be listed, so rglob and glob never yield p
Hidden(f, p) ==
    \E i \in 0..(Len(p) - 1) : CannotList(f, SubSeq(p, 1, i))

\* root.rglob('*')
RGlob(f) ==
    LET S == {p \in DOMAIN f : p # Root /\ ~Hidden(f, p)}
    IN  SortBy(S, {pr \in S \X S : PathLess(pr[1], pr[2])})

EndsWith(name, suffix) ==
    Len(name) >= Len(suffix)
    /\ SubSeq(name, Len(name) - Len(suffix) + 1, Len(name)) = suffix

\* d.glob('*.jpg') narrowed to files
GlobJpgFiles(f, d) ==
    {p \in ChildrenOf(f, d) : EndsWith(Name(p), ext.jpg) /\ IsFile(f, p) /\ ~Hidden(f, p)}

\* sorted(paths, key=natural_sort_key): stable, so equal keys keep listing order
NaturalLess(p, q) ==
    \/ KeyLess(Name(p), Name(q))
    \/ ~KeyLess(Name(q), Name(p)) /\ PathLess(p, q)

NaturalSorted(S) == SortBy(S, {pr \in S \X S : NaturalLess(pr[1], pr[2])})

\* any(skip in str(path) for skip in config["skip_dirs"])
SkipInPath(p) == \E i \in 1..Len(p) : \E s \in SkipDirs : IsInfix(s, p[i])

RECURSIVE Concat(_)
Concat(ss) == IF ss = <<>> THEN <<>> ELSE Head(ss) \o Concat(Tail(ss))

\* len(str(path)), less the length of the root's own string
RECURSIVE PathStrLen(_)
PathStrLen(p) == IF p = <<>> THEN 0 ELSE StrLen(Name(p)) + 1 + PathStrLen(Parent(p))

\* [x for x in d.iterdir() if x.is_dir() and x.name not in skip_dirs]: the
\* directories among the entries of d, in the order d lists them
IterDirs(f, d) ==
    LET S == {p \in ChildrenOf(f, d) : IsDir(f, p) /\ Name(p) \notin SkipDirs}
    IN  SortBy(S, {pr \in S \X S : PathLess(pr[1], pr[2])})

\* the non-skip directories directly below the root
ParentDirs(f) == IterDirs(f, Root)

\* the non-skip directories directly below the parent directories
SubDirs(f) ==
    LET ps == ParentDirs(f) IN Concat([i \in 1..Len(ps) |-> IterDirs(f, ps[i])])

\* step 1: the recognised images that are not yet .jpg / .jpeg
ConvertList(f) ==
    LET ok(p) == /\ ~SkipInPath(p)
                 /\ IsFile(f, p)
                 /\ Lower(Suffix(Name(p))) \in ImageExts
                 /\ Lower(Suffix(Name(p))) \notin {ext.jpg, ext.jpeg}
    IN  SelectSeq(RGlob(f), ok)

\* step 6's list as it would be if it were sorted shortest path string first
CleanListShortestFirst(f) ==
    LET dirs == {p \in DOMAIN f : p # Root /\ ~Hidden(f, p) /\ IsDir(f, p)
                                  /\ Name(p) \notin SkipDirs}
        lt(p, q) == \/ PathStrLen(p) < PathStrLen(q)
                    \/ PathStrLen(p) = PathStrLen(q) /\ PathLess(p, q)
    IN  SortBy(dirs, {pr \in dirs \X dirs : lt(pr[1], pr[2])})

\* step 6: every non-skip directory, longest path string first
CleanList(f) ==
    LET dirs == {p \in DOMAIN f : p # Root /\ ~Hidden(f, p) /\ IsDir(f, p)
                                  /\ Name(p) \notin SkipDirs}
        lt(p, q) == \/ PathStrLen(p) > PathStrLen(q)
                    \/ PathStrLen(p) = PathStrLen(q) /\ PathLess(p, q)
    IN  SortBy(dirs, {pr \in dirs \X dirs : lt(pr[1], pr[2])})

\* step 8's test as it would be without the look at the suffixes
IsLeafDirLoose(f, d) ==
    LET items == {p \in ChildrenOf(f, d) : Name(p) \notin SkipDirs} IN
    /\ ~\E p \in items : IsDir(f, p)
    /\ items # {}

\* step 8's test of one directory
IsLeafDir(f, d) ==
    LET items == {p \in ChildrenOf(f, d) : Name(p) \notin SkipDirs} IN
    /\ ~\E p \in items : IsDir(f, p)
    /\ \A p \in items : Lower(Suffix(Name(p))) \in {ext.jpg, ext.jpeg}
    /\ items # {}

\* step 8: the leaf directories, deepest first
LeafDirs(f) ==
    LET dirs == {p \in DOMAIN f : p # Root /\ ~Hidden(f, p) /\ IsDir(f, p)
                                  /\ Name(p) \notin SkipDirs /\ IsLeafDir(f, p)}
        lt(p, q) == Len(p) > Len(q) \/ (Len(p) = Len(q) /\ PathLess(p, q))
    IN  SortBy(dirs, {pr \in dirs \X dirs : lt(pr[1], pr[2])})

\* step 9: root.glob('*.zip') narrowed to files
ZipFiles(f) ==
    LET ok(p) == EndsWith(Name(p), ext.zip) /\ IsFile(f, p) IN SelectSeq(IterDir(f, Root), ok)

\* the candidates step k enumerates before it asks for confirmation
Candidates(k, f) ==
    CASE k = 1 -> ConvertList(f)
      [] k \in {2, 4, 5} -> SubDirs(f)
      [] k \in {3, 7} -> ParentDirs(f)
      [] k = 6 -> CleanList(f)
      [] k = 8 -> LeafDirs(f)
      [] OTHER -> ZipFiles(f)

\* the enumeration itself lists a directory that cannot be listed
EnumRaises(k, f) ==
    CASE k \in {2, 4, 5} ->
            \E i \in 1..Len(ParentDirs(f)) : CannotList(f, ParentDirs(f)[i])
      [] k = 8 ->
            \E p \in DOMAIN f : /\ p # Root /\ ~Hidden(f, p) /\ IsDir(f, p)
                                /\ Name(p) \notin SkipDirs /\ CannotList(f, p)
      [] OTHER -> FALSE

\* ------------------------------------------------------------------ records
LogRec(level, kind, src, dst) == [level |-> level, kind |-> kind, src |-> src, dst |-> dst]

\* record_operation as it would be if it put the new record first
record_operation_front(j, operation, source, target) ==
    <<[operation |-> operation, source |-> source, target |-> target]>> \o j

\* BackupManager.record_operation
record_operation(j, operation, source, target) ==
    Append(j, [operation |-> operation, source |-> source, target |-> target])

Did(operation, source, target) ==
    [operation |-> operation, source |-> source, target |-> target]

\* the names of the entries the trees are built from
nm ==
    [ a |-> <<"a">>,
      b |-> <<"b">>,
      c |-> <<"c">>,
      u |-> <<"u">>,
      logs |-> <<"logs">>,
      logfile |-> <<"conversion", ".", "log">>,
      jpg1 |-> <<"1", ".", "jpg">>,
      jpg2 |-> <<"2", ".", "jpg">>,
      png2 |-> <<"2", ".", "png">>,
      jpeg2 |-> <<"2", ".", "jpeg">>,
      txt |-> <<"x", ".", "txt">>,
      dsstore |-> <<".", "DS", "_", "Store">>,
      tmpdir |-> <<"tmpdir">> ]

\* what setup_logging leaves below the root before anything else runs
BaseTree ==
    (Root :> DirNode) @@ (<<nm.logs>> :> DirNode) @@ (<<nm.logs, nm.logfile>> :> FileNode(0))

\* what a variable holds while the thing it describes has not happened: the
\* locals of a step function that is not running, confirm_operation not yet
\* called, nothing asked by main(), no earlier run, no rollback,
\* validate_structure not called, no edit session, and no window
none ==
    [ loc |->
          [ phase |-> "", todo |-> <<>>, total |-> 0, idx |-> 0, inner |-> <<>>, n |-> 0,
            used |-> {}, src |-> <<>>, dst |-> <<>>, tmp |-> <<>> ],
      confirm |->
          [ step |-> 0, dry |-> FALSE, skip |-> FALSE, inter |-> FALSE, prompted |-> FALSE,
            response |-> "-", result |-> FALSE ],
      input |-> [prompt |-> "", answer |-> ""],
      run |-> [done |-> FALSE, fs |-> BaseTree, prompts |-> <<>>],
      rollback |-> [ran |-> FALSE, visited |-> <<>>, failed |-> {}],
      validate |-> [called |-> FALSE, raised |-> FALSE, issues |-> {}],
      edit |-> [open |-> FALSE, began |-> DEFAULT_CONFIG, turns |-> 0, ret |-> "-"],
      gui |-> [ buttons |-> TRUE, worker |-> "-", method |-> "-", input |-> "builtin",
                stdout |-> "console", bar |-> 0, emitted |-> 0, queue |-> <<>> ] ]

\* whether the next filesystem operation may be made to fail; the steps'
\* handling of a failure never reads interactive_mode
MayFail ==
    /\ ~config.interactive_mode
    /\ nfail < MaxFail
    /\ faultStep \in {0, progress.current_step}

FailChoices == IF MayFail THEN {FALSE, TRUE} ELSE {FALSE}

\* _update_display: the overall progress it renders,
\* (current_step - 1 + task_progress) / total_steps, as a fraction
total_progress(pr) ==
    [num |-> (pr.current_step - 1) * pr.den + pr.num, den |-> TotalSteps * pr.den]

\* ----------------------------------------------------------------- progress
\* step_start as it would be if it counted a step twice
step_start_skipping(pr) == [pr EXCEPT !.current_step = @ + 2, !.num = 0, !.den = 1]

\* ProgressManager.step_start
step_start(pr) == [pr EXCEPT !.current_step = @ + 1, !.num = 0, !.den = 1]

\* update_task as it would be if it reset the fraction
update_task_zero(pr, num, den) == [pr EXCEPT !.num = 0, !.den = 1]

\* ProgressManager.update_task(num / den)
update_task(pr, num, den) ==
    IF num < 0 THEN [pr EXCEPT !.num = 0, !.den = 1]
    ELSE IF num > den THEN [pr EXCEPT !.num = 1, !.den = 1]
    ELSE [pr EXCEPT !.num = num, !.den = den]

\* ProgressManager.complete_step
complete_step(pr) == [pr EXCEPT !.num = 1, !.den = 1]

\* ------------------------------------------------------------ initial trees
\* step 5 gives up on a file after this many names
MaxMoveTries == 100

\* the trees the runs begin on, each on top of BaseTree
tree ==
    [
      \* the example of the specification: a/b/{1.jpg, 2.png}, a/c/{1.jpg}
      example |->
          BaseTree @@ (<<nm.a>> :> DirNode) @@ (<<nm.a, nm.b>> :> DirNode)
              @@ (<<nm.a, nm.b, nm.jpg1>> :> FileNode(1)) @@ (<<nm.a, nm.b, nm.png2>> :> FileNode(2))
              @@ (<<nm.a, nm.c>> :> DirNode) @@ (<<nm.a, nm.c, nm.jpg1>> :> FileNode(3)),
      \* pages directly below a parent directory, which has no subdirectory: a/{1.jpg}
      flat |->
          BaseTree @@ (<<nm.a>> :> DirNode) @@ (<<nm.a, nm.jpg1>> :> FileNode(1)),
      \* a parent directory that holds a skip-listed file: a/{.DS_Store, b/1.jpg}
      dsstore |->
          BaseTree @@ (<<nm.a>> :> DirNode) @@ (<<nm.a, nm.dsstore>> :> FileNode(0))
              @@ (<<nm.a, nm.b>> :> DirNode) @@ (<<nm.a, nm.b, nm.jpg1>> :> FileNode(1)),
      \* a parent directory that holds a file that is no image: a/{x.txt, b/1.jpg}
      txt |->
          BaseTree @@ (<<nm.a>> :> DirNode) @@ (<<nm.a, nm.txt>> :> FileNode(0))
              @@ (<<nm.a, nm.b>> :> DirNode) @@ (<<nm.a, nm.b, nm.jpg1>> :> FileNode(1)),
      \* a child directory that cannot be listed: a/{b/1.jpg, u/1.jpg}
      locked |->
          BaseTree @@ (<<nm.a>> :> DirNode) @@ (<<nm.a, nm.b>> :> DirNode)
              @@ (<<nm.a, nm.b, nm.jpg1>> :> FileNode(1))
              @@ (<<nm.a, nm.u>> :> [DirNode EXCEPT !.readable = FALSE]) @@ (<<nm.a, nm.u, nm.jpg1>> :> FileNode(2)),
      \* a page whose name ends in .jpeg, beside a directory of pages directly below
      \* the root: a/b/{1.jpg, 2.jpeg}, c/{1.jpg}
      jpeg |->
          BaseTree @@ (<<nm.a>> :> DirNode) @@ (<<nm.a, nm.b>> :> DirNode)
              @@ (<<nm.a, nm.b, nm.jpg1>> :> FileNode(1)) @@ (<<nm.a, nm.b, nm.jpeg2>> :> FileNode(2))
              @@ (<<nm.c>> :> DirNode) @@ (<<nm.c, nm.jpg1>> :> FileNode(3)),
      \* two pages whose natural-sort keys are equal: a/b/{1.jpg, 01.jpg}
      tie |->
          BaseTree @@ (<<nm.a>> :> DirNode) @@ (<<nm.a, nm.b>> :> DirNode)
              @@ (<<nm.a, nm.b, nm.jpg1>> :> FileNode(1))
              @@ (<<nm.a, nm.b, <<"0", "1", ".", "jpg">> >> :> FileNode(2)),
      \* directories and pages that carry numbers already:
      \* a/0000/{0000.jpg, 0001.jpg}, a/0001/{0000.jpg}
      numbered |->
          BaseTree @@ (<<nm.a>> :> DirNode) @@ (<<nm.a, Fmt04(0)>> :> DirNode)
              @@ (<<nm.a, Fmt04(0), Fmt04(0) \o ext.jpg>> :> FileNode(1))
              @@ (<<nm.a, Fmt04(0), Fmt04(1) \o ext.jpg>> :> FileNode(2))
              @@ (<<nm.a, Fmt04(1)>> :> DirNode)
              @@ (<<nm.a, Fmt04(1), Fmt04(0) \o ext.jpg>> :> FileNode(3)),
      \* a page beside the name its prefixed form would take: a/b/{1.jpg, b_1.jpg}
      prefixed |->
          BaseTree @@ (<<nm.a>> :> DirNode) @@ (<<nm.a, nm.b>> :> DirNode)
              @@ (<<nm.a, nm.b, nm.jpg1>> :> FileNode(1))
              @@ (<<nm.a, nm.b, nm.b \o <<"_">> \o nm.jpg1>> :> FileNode(2)),
      \* a parent directory in which 1.jpg and 1_1.jpg .. 1_99.jpg are all taken:
      \* a/{1.jpg, 1_1.jpg, .., 1_99.jpg, 2.jpg, b/{1.jpg, 2.jpg}}
      crowded |->
          BaseTree @@ (<<nm.a>> :> DirNode) @@ (<<nm.a, nm.b>> :> DirNode)
              @@ (<<nm.a, nm.b, nm.jpg1>> :> FileNode(1))
              @@ (<<nm.a, nm.b, nm.jpg2>> :> FileNode(2))
              @@ (<<nm.a, nm.jpg1>> :> FileNode(3)) @@ (<<nm.a, nm.jpg2>> :> FileNode(4))
              @@ [p \in {<<nm.a, Suffixed(nm.jpg1, c)>> : c \in 1..(MaxMoveTries - 1)} |->
                     FileNode(5)],
      \* empty directories inside one another beside a directory of pages:
      \* a/b/{1.jpg}, c/b/u/
      hollow |->
          BaseTree @@ (<<nm.a>> :> DirNode) @@ (<<nm.a, nm.b>> :> DirNode)
              @@ (<<nm.a, nm.b, nm.jpg1>> :> FileNode(1))
              @@ (<<nm.c>> :> DirNode) @@ (<<nm.c, nm.b>> :> DirNode)
              @@ (<<nm.c, nm.b, nm.u>> :> DirNode),
      \* pages that carry their final names already: a/{0001.jpg, 0002.jpg}
      ordered |->
          BaseTree @@ (<<nm.a>> :> DirNode)
              @@ (<<nm.a, Fmt04(1) \o ext.jpg>> :> FileNode(1))
              @@ (<<nm.a, Fmt04(2) \o ext.jpg>> :> FileNode(2)),
      \* pages that carry final names that are not theirs, beside a file that is
      \* no page: a/{0002.jpg, 0003.jpg, 1.jpg, x.txt}
      gapped |->
          BaseTree @@ (<<nm.a>> :> DirNode)
              @@ (<<nm.a, Fmt04(2) \o ext.jpg>> :> FileNode(1))
              @@ (<<nm.a, Fmt04(3) \o ext.jpg>> :> FileNode(2))
              @@ (<<nm.a, nm.jpg1>> :> FileNode(3))
              @@ (<<nm.a, nm.txt>> :> FileNode(0)),
      \* a directory that carries a final name, beside two pages:
      \* a/{0001.jpg/, 1.jpg, 2.jpg}
      nested |->
          BaseTree @@ (<<nm.a>> :> DirNode)
              @@ (<<nm.a, Fmt04(1) \o ext.jpg>> :> DirNode)
              @@ (<<nm.a, nm.jpg1>> :> FileNode(1))
              @@ (<<nm.a, nm.jpg2>> :> FileNode(2)),
      \* pages whose order by name is not their natural order, two of them with
      \* a superscript two between digits:
      \* a/b/{1.jpg, 2.jpg, 10.jpg, page2.jpg, page10.jpg, ds2.jpg, DS10.jpg,
      \*      2(sup2)3.jpg, 10(sup2)3.jpg}
      sortable |->
          BaseTree @@ (<<nm.a>> :> DirNode) @@ (<<nm.a, nm.b>> :> DirNode)
              @@ (<<nm.a, nm.b, nm.jpg1>> :> FileNode(1))
              @@ (<<nm.a, nm.b, nm.jpg2>> :> FileNode(2))
              @@ (<<nm.a, nm.b, <<"1", "0">> \o ext.jpg>> :> FileNode(3))
              @@ (<<nm.a, nm.b, <<"page", "2">> \o ext.jpg>> :> FileNode(4))
              @@ (<<nm.a, nm.b, <<"page", "1", "0">> \o ext.jpg>> :> FileNode(5))
              @@ (<<nm.a, nm.b, <<"ds", "2">> \o ext.jpg>> :> FileNode(6))
              @@ (<<nm.a, nm.b, <<"DS", "1", "0">> \o ext.jpg>> :> FileNode(7))
              @@ (<<nm.a, nm.b, <<"2", "sup2", "3">> \o ext.jpg>> :> FileNode(8))
              @@ (<<nm.a, nm.b, <<"1", "0", "sup2", "3">> \o ext.jpg>> :> FileNode(9)),
      \* a directory of pages beside a directory whose pages carry numbers
      \* already: a/b/{1.jpg, 2.jpg}, a/c/{0000.jpg, 0001.jpg}
      reissued |->
          BaseTree @@ (<<nm.a>> :> DirNode) @@ (<<nm.a, nm.b>> :> DirNode)
              @@ (<<nm.a, nm.b, nm.jpg1>> :> FileNode(1))
              @@ (<<nm.a, nm.b, nm.jpg2>> :> FileNode(2))
              @@ (<<nm.a, nm.c>> :> DirNode)
              @@ (<<nm.a, nm.c, Fmt04(0) \o ext.jpg>> :> FileNode(3))
              @@ (<<nm.a, nm.c, Fmt04(1) \o ext.jpg>> :> FileNode(4)),
      \* a page beside two images of its stem: a/b/{1.jpg, 1.png, 1.gif}
      clash |->
          BaseTree @@ (<<nm.a>> :> DirNode) @@ (<<nm.a, nm.b>> :> DirNode)
              @@ (<<nm.a, nm.b, nm.jpg1>> :> FileNode(1))
              @@ (<<nm.a, nm.b, <<"1", ".", "png">> >> :> FileNode(2))
              @@ (<<nm.a, nm.b, <<"1", ".", "gif">> >> :> FileNode(3)),
      \* two leaf directories that differ in their suffix only:
      \* a/b.1/{1.jpg}, a/b.2/{1.jpg}
      twins |->
          BaseTree @@ (<<nm.a>> :> DirNode)
              @@ (<<nm.a, <<"b", ".", "1">> >> :> DirNode)
              @@ (<<nm.a, <<"b", ".", "1">>, nm.jpg1>> :> FileNode(1))
              @@ (<<nm.a, <<"b", ".", "2">> >> :> DirNode)
              @@ (<<nm.a, <<"b", ".", "2">>, nm.jpg1>> :> FileNode(2)),
      \* no root at all
      missing |-> [p \in {} |-> DirNode],
      \* a root that is a file
      rootfile |-> (Root :> FileNode(0)),
      \* a root that cannot be listed, above a/b/{1.jpg}
      sealed |->
          (Root :> [DirNode EXCEPT !.readable = FALSE]) @@ (<<nm.a>> :> DirNode) @@ (<<nm.a, nm.b>> :> DirNode)
              @@ (<<nm.a, nm.b, nm.jpg1>> :> FileNode(1)),
      \* a root in which nothing can be created, above a/b/{1.jpg}
      readonly |->
          (Root :> [DirNode EXCEPT !.writable = FALSE]) @@ (<<nm.a>> :> DirNode) @@ (<<nm.a, nm.b>> :> DirNode)
              @@ (<<nm.a, nm.b, nm.jpg1>> :> FileNode(1)),
      \* a parent directory that cannot be listed beside one that can:
      \* a/ (locked), c/b/{1.jpg}
      sealedparent |->
          BaseTree @@ (<<nm.a>> :> [DirNode EXCEPT !.readable = FALSE]) @@ (<<nm.c>> :> DirNode)
              @@ (<<nm.c, nm.b>> :> DirNode) @@ (<<nm.c, nm.b, nm.jpg1>> :> FileNode(1)),
      \* a root that holds nothing
      bare |-> (Root :> DirNode),
      \* a root that holds a skip-listed directory and a page, and nothing else
      skiponly |->
          (Root :> DirNode) @@ (<<nm.dsstore>> :> DirNode) @@ (<<nm.jpg1>> :> FileNode(1)),
      \* a tree of the expected shape that holds no image: a/b/{x.txt}
      pageless |->
          BaseTree @@ (<<nm.a>> :> DirNode) @@ (<<nm.a, nm.b>> :> DirNode)
              @@ (<<nm.a, nm.b, nm.txt>> :> FileNode(0)) ]

Trees == {tree.example, tree.dsstore, tree.txt, tree.locked, tree.jpeg, tree.flat}

Configs ==
    { c \in [ start_num : StartNums, backup_enabled : BOOLEAN,
               interactive_mode : BOOLEAN, skip_step_confirmations : BOOLEAN,
               dry_run : BOOLEAN ] :
        \* the flag is only ever read in interactive mode
        c.skip_step_confirmations => c.interactive_mode }

\* the trees that are run with the backup switched on
BackupTrees == {tree.dsstore}

Init ==
    /\ fs \in Trees
    /\ config \in {c \in Configs : c.backup_enabled => (fs \in BackupTrees /\ c.start_num = 0)}
    /\ saved = [present |-> config # DEFAULT_CONFIG, parseable |-> TRUE, cfg |-> config]
    /\ journal = <<>>
    /\ log = {}
    /\ progress = [current_step |-> 0, num |-> 0, den |-> 1]
    /\ pc = "validate"
    /\ loc = none.loc
    /\ enumOrder \in {"fwd", "rev"}
    /\ nfail = 0
    /\ faultStep = 0
    /\ ndecl = 0
    /\ fs0 = fs
    /\ calls = <<>>
    /\ rets = <<>>
    /\ performed = {}
    /\ snap = [fs |-> fs, journal |-> <<>>]
    /\ lastConfirm = none.confirm
    /\ intended = {}
    /\ prompts = <<>>
    /\ lastInput = none.input
    /\ firstRun = none.run
    /\ rolled = none.rollback
    /\ validated = none.validate
    /\ edit = none.edit
    /\ gui = none.gui

\* --------------------------------------------------------------------- main
\* save_config as it would be if it never wrote
save_config_lost(cfg, fail) == saved

\* ConfigManager.save_config: the write may fail, which is logged, not raised
save_config(cfg, fail) ==
    IF fail THEN saved ELSE [present |-> TRUE, parseable |-> TRUE, cfg |-> cfg]

\* save_config's "save failed" error record; when names the caller
SaveLog(fail, when) == IF fail THEN {LogRec("error", when, <<>>, <<>>)} ELSE {}

\* an unhandled exception leaves the running step: main()'s except Exception
Raise(where) ==
    /\ pc' = "fatal"
    /\ loc' = [none.loc EXCEPT !.phase = where]
    /\ progress' = progress
    /\ lastConfirm' = none.confirm

Crash == LogRec("critical", "crash", <<>>, <<>>)

\* main(): "confirm the configuration" [Y/n/e] before the steps begin, answered
\* with yes or with anything that is neither yes nor "e"; the prompt is in a
\* loop that is entered in interactive mode outside a dry run and that asks
\* again, whatever the flags have become, after an edit session (EditConfig)
ConfirmConfig ==
    /\ pc \in {"start", "reprompt"}
    /\ IF pc = "reprompt" \/ (config.interactive_mode /\ ~config.dry_run)
       THEN \E yes \in BOOLEAN, fail \in BOOLEAN :
               /\ IF yes
                  THEN /\ saved' = save_config(config, fail)
                       /\ log' = log \cup SaveLog(fail, "save-confirmed")
                       /\ pc' = "main"
                  ELSE /\ fail = FALSE
                       /\ UNCHANGED <<saved, log>>
                       /\ pc' = "cancelled"
       ELSE /\ pc' = "main"
            /\ UNCHANGED <<saved, log>>
    /\ lastInput' = none.input
    /\ UNCHANGED << fs, config, journal, progress, loc, enumOrder, nfail,
                    faultStep, ndecl, fs0, calls, rets, performed, snap, lastConfirm,
                    intended, prompts, firstRun, rolled, validated, edit, gui >>

\* main(): one turn of the loop over step_functions, up to the call
StepStart ==
    /\ pc = "main"
    /\ progress.current_step < TotalSteps
    /\ progress' = step_start(progress)
    /\ calls' = Append(calls, progress'.current_step)
    /\ snap' = [fs |-> fs, journal |-> journal]
    /\ pc' = "enum"
    /\ loc' = none.loc
    /\ UNCHANGED << fs, config, saved, journal, log, enumOrder, nfail, faultStep, ndecl, fs0,
                    rets, performed, lastConfirm, intended, prompts, lastInput, firstRun, rolled, validated, edit, gui >>

\* a step function, from its first line to its "if total == 0" test
Enumerate ==
    /\ pc = "enum"
    /\ LET k == progress.current_step
           cands == Candidates(k, fs)
       IN  IF EnumRaises(k, fs)
           THEN Raise("enumerating") /\ log' = log \cup {Crash}
           ELSE IF cands = <<>>
           THEN /\ progress' = update_task(progress, 1, 1)
                /\ pc' = "ret"
                /\ loc' = [none.loc EXCEPT !.phase = "zero"]
                /\ UNCHANGED <<log, lastConfirm>>
           ELSE /\ pc' = "confirm"
                /\ loc' = [none.loc EXCEPT !.todo = cands, !.total = Len(cands)]
                /\ UNCHANGED <<progress, log, lastConfirm>>
    /\ UNCHANGED << fs, config, saved, journal, enumOrder, nfail, faultStep, ndecl, fs0, calls,
                    rets, performed, snap, intended, prompts, lastInput, firstRun, rolled, validated, edit, gui >>

\* input(...).strip().lower()
StripLower(raw) ==
    CASE raw \in {"y", "Y", " y "} -> "y"
      [] raw \in {"a", "A"} -> "a"
      [] OTHER -> raw

\* confirm_operation's verdict on a typed response
ConfirmResult(response) == response = "a" \/ response \in {"", "y"}

\* confirm_operation as it would be if it looked at dry_run alone
NeedsPromptUnattended(cfg) == ~cfg.dry_run

\* confirm_operation prompts only when none of the three flags lets it through
NeedsPrompt(cfg) ==
    ~cfg.dry_run /\ ~(cfg.skip_step_confirmations \/ ~cfg.interactive_mode)

\* confirm_operation, then the step's "if not confirm_operation(...)" branch
Confirm ==
    /\ pc = "confirm"
    /\ \E raw \in {"", "y", "Y", " y ", "a", "A", "n", "yes"}, fail \in BOOLEAN :
        LET prompted == NeedsPrompt(config)
            response == IF prompted THEN StripLower(raw) ELSE "-"
            result == IF prompted THEN ConfirmResult(response) ELSE TRUE
            always == prompted /\ response = "a"
        IN  /\ ~prompted => raw = ""
            /\ ~always => fail = FALSE
            /\ ~result => ndecl < MaxDecline
            /\ config' = IF always THEN [config EXCEPT !.skip_step_confirmations = TRUE]
                         ELSE config
            /\ saved' = IF always THEN save_config(config', fail) ELSE saved
            /\ ndecl' = IF result THEN ndecl ELSE ndecl + 1
            /\ log' = IF prompted THEN log \cup SaveLog(fail, "save-always")
                      ELSE log \cup {LogRec("info", "skip-confirm", <<>>, <<>>)}
            /\ prompts' = IF prompted
                          THEN Append(prompts,
                                      [step |-> progress.current_step,
                                       answer |-> IF always THEN "always"
                                                  ELSE IF result THEN "proceed"
                                                  ELSE "decline"])
                          ELSE prompts
            /\ lastConfirm' =
                   [ step |-> progress.current_step, dry |-> config.dry_run,
                     skip |-> config.skip_step_confirmations,
                     inter |-> config.interactive_mode, prompted |-> prompted,
                     response |-> response, result |-> result ]
            /\ IF result
               THEN /\ pc' = "loop"
                    /\ loc' = [loc EXCEPT !.phase = "item"]
                    /\ UNCHANGED progress
               ELSE /\ pc' = "ret"
                    /\ loc' = [none.loc EXCEPT !.phase = "declined"]
                    /\ progress' = update_task(progress, 1, 1)
    /\ UNCHANGED << fs, journal, enumOrder, nfail, faultStep, fs0, calls, rets,
                    performed, snap, intended, lastInput, firstRun, rolled, validated, edit, gui >>

\* the step function returns to main()'s loop
StepReturn ==
    /\ pc = "ret"
    /\ rets' = Append(rets, [step |-> progress.current_step, outcome |-> loc.phase])
    /\ pc' = "main"
    /\ loc' = none.loc
    /\ lastConfirm' = none.confirm
    /\ UNCHANGED << fs, config, saved, journal, log, progress, enumOrder, nfail, faultStep, ndecl,
                    fs0, calls, performed, snap, intended, prompts, lastInput, firstRun, rolled, validated, edit, gui >>

\* main(): after the loop, progress.complete_step() and "all steps done"
Finish ==
    /\ pc = "main"
    /\ progress.current_step = TotalSteps
    /\ progress' = complete_step(progress)
    /\ pc' = "done"
    /\ UNCHANGED << fs, config, saved, journal, log, loc, enumOrder, nfail, faultStep, ndecl, fs0,
                    calls, rets, performed, snap, lastConfirm, intended, prompts, lastInput, firstRun, rolled, validated, edit, gui >>

\* ------------------------------------------------- main(): before the steps
\* what main() reads at one of its own [y/N] prompts, before strip().lower()
MainAnswers == {" y ", "n"}

\* DirectoryValidator.validate_structure: whether it raises, and the issues it
\* returns
validate_structure(f, dry_run) ==
    LET access == (IF f[Root].readable THEN {} ELSE {"unreadable"})
                      \cup (IF ~f[Root].writable /\ ~dry_run THEN {"unwritable"} ELSE {})
        parent_dirs == ParentDirs(f)
        \* the loop over parent_dirs stops at the first that has a subdirectory
        stops == {i \in 1..Len(parent_dirs) :
                     \/ CannotList(f, parent_dirs[i])
                     \/ \E d \in ChildrenOf(f, parent_dirs[i]) :
                           IsDir(f, d) /\ Name(d) \notin SkipDirs}
        first == CHOOSE i \in stops : \A k \in stops : i <= k
        valid_structure == stops # {}
        image_files == {p \in DOMAIN f : /\ IsFile(f, p) /\ ~Hidden(f, p)
                                         /\ Lower(Suffix(Name(p))) \in ImageExts}
    IN  CASE ~Exists(f, Root) -> [raised |-> FALSE, issues |-> {"missing"}]
          [] Exists(f, Root) /\ ~IsDir(f, Root) ->
                [raised |-> FALSE, issues |-> {"not-a-directory"}]
          [] IsDir(f, Root) /\ CannotList(f, Root) ->
                \* self.root_dir.iterdir() raises PermissionError
                [raised |-> TRUE, issues |-> {}]
          [] OTHER ->
                IF parent_dirs = <<>>
                THEN [raised |-> FALSE, issues |-> access \cup {"no-directories"}]
                ELSE IF stops # {} /\ CannotList(f, parent_dirs[first])
                THEN \* parent.iterdir() raises PermissionError
                     [raised |-> TRUE, issues |-> {}]
                ELSE [ raised |-> FALSE,
                       issues |-> access
                                    \cup (IF valid_structure THEN {} ELSE {"structure"})
                                    \cup (IF image_files = {} THEN {"no-images"} ELSE {}) ]

\* what the preamble of main() leaves alone
FrameMain ==
    UNCHANGED << config, saved, journal, progress, loc, enumOrder, nfail, faultStep,
                 ndecl, calls, rets, performed, snap, lastConfirm, intended, prompts,
                 firstRun, rolled, validated, edit, gui >>

\* main(): validate_structure and the "continue anyway?" branch
Validate ==
    /\ pc = "validate"
    /\ IF validate_structure(fs, config.dry_run).raised
       THEN \* the call is outside main()'s try block: traceback, exit status 1
            pc' = "exit1" /\ lastInput' = none.input
       ELSE IF validate_structure(fs, config.dry_run).issues = {}
       THEN pc' = "disk" /\ lastInput' = none.input
       ELSE IF config.interactive_mode
       THEN \E raw \in MainAnswers :
               /\ lastInput' = [prompt |-> "structure", answer |-> StripLower(raw)]
               /\ pc' = IF StripLower(raw) = "y" THEN "disk" ELSE "cancelled"
       ELSE pc' = "exit1" /\ lastInput' = none.input
    /\ UNCHANGED <<fs, fs0, log>>
    /\ FrameMain

\* main(): validate_disk_space, whose answer is the environment's
CheckDisk ==
    /\ pc = "disk"
    /\ \E enough \in BOOLEAN : pc' = IF enough THEN "backup" ELSE "lowdisk"
    /\ lastInput' = none.input
    /\ UNCHANGED <<fs, fs0, log>>
    /\ FrameMain

\* main(): the branch taken when validate_disk_space has returned False
LowDisk ==
    /\ pc = "lowdisk"
    /\ IF config.interactive_mode
       THEN \E raw \in MainAnswers :
               /\ lastInput' = [prompt |-> "disk", answer |-> StripLower(raw)]
               /\ pc' = IF StripLower(raw) = "y" THEN "backup" ELSE "cancelled"
       ELSE pc' = "backup" /\ lastInput' = none.input
    /\ UNCHANGED <<fs, fs0, log>>
    /\ FrameMain

\* root / "backups" / f"backup_{timestamp}"
BackupPath == << <<"backups">>, <<"backup", "_", "0">> >>

\* create_backup when nothing fails: every recognised image outside the skip
\* list is copied below BackupPath under its relative path. rglob walks the
\* tree while the copies are made, so an image whose top-level directory is
\* listed before "backups" is met again below BackupPath and copied once more
BackupTree(f) ==
    LET images == {p \in DOMAIN f : /\ p # Root /\ ~Hidden(f, p) /\ ~SkipInPath(p)
                                    /\ IsFile(f, p)
                                    /\ Lower(Suffix(Name(p))) \in ImageExts}
        again == {p \in images : Len(p) = 1 \/ NameLess(p[1], BackupPath[1])}
        copies == {<<p, BackupPath \o p>> : p \in images}
                  \cup {<<p, BackupPath \o BackupPath \o p>> : p \in again}
        files == {c[2] : c \in copies}
        dirs == {SubSeq(BackupPath, 1, 1)}
                \cup UNION {{SubSeq(q, 1, i) : i \in 1..(Len(q) - 1)} : q \in files}
    IN  [q \in DOMAIN f \cup dirs \cup files |->
            IF q \in DOMAIN f THEN f[q]
            ELSE IF q \in files THEN f[(CHOOSE c \in copies : c[2] = q)[1]]
            ELSE DirNode]

\* main(): create_backup, when the backup is enabled and the run is no dry
\* run. A failure is logged; in interactive mode create_backup then asks
\* whether to go on and returns None whatever the answer
Backup ==
    /\ pc = "backup"
    /\ IF config.backup_enabled /\ ~config.dry_run
       THEN \E outcome \in {"ok", "mkdir-fails", "copy-fails"}, raw \in MainAnswers :
               /\ (outcome = "ok" \/ ~config.interactive_mode) => raw = "n"
               /\ fs' = CASE outcome = "ok" -> BackupTree(fs)
                          [] outcome = "mkdir-fails" -> fs
                          [] OTHER -> WriteNode(fs, SubSeq(BackupPath, 1, 1), DirNode)
               /\ log' = log \cup {IF outcome = "ok"
                                   THEN LogRec("info", "backup", BackupPath, NoPath)
                                   ELSE LogRec("error", "backup", BackupPath, NoPath)}
               /\ pc' = IF outcome = "ok" THEN "start" ELSE "nobackup"
               /\ lastInput' = IF outcome # "ok" /\ config.interactive_mode
                               THEN [prompt |-> "backup-failed", answer |-> StripLower(raw)]
                               ELSE none.input
       ELSE /\ pc' = "start"
            /\ lastInput' = none.input
            /\ UNCHANGED <<fs, log>>
    /\ fs0' = fs'
    /\ FrameMain

\* main(): the branch taken when create_backup has returned None
NoBackup ==
    /\ pc = "nobackup"
    /\ IF config.interactive_mode
       THEN \E raw \in MainAnswers :
               /\ lastInput' = [prompt |-> "no-backup", answer |-> StripLower(raw)]
               /\ pc' = IF StripLower(raw) = "y" THEN "start" ELSE "cancelled"
       ELSE pc' = "start" /\ lastInput' = none.input
    /\ UNCHANGED <<fs, fs0, log>>
    /\ FrameMain

\* ------------------------------------------------------- the loop of a step
\* the end of one turn of a step's "for idx, x in enumerate(...)" loop:
\* update_task((idx+1)/total) unless the turn left by "continue", and after
\* the last turn complete_step() and return
ItemDone(l, update) ==
    /\ lastConfirm' = none.confirm
    /\ IF Len(l.todo) <= 1
       THEN /\ progress' = complete_step(progress)
            /\ pc' = "ret"
            /\ loc' = [none.loc EXCEPT !.phase = "ran"]
       ELSE /\ progress' = IF update THEN update_task(progress, l.idx + 1, l.total)
                           ELSE progress
            /\ pc' = "loop"
            /\ loc' = [none.loc EXCEPT !.phase = "item", !.todo = Tail(l.todo),
                                      !.total = l.total, !.idx = l.idx + 1]

InLoop(k, phase) == pc = "loop" /\ progress.current_step = k /\ loc.phase = phase

\* what a loop action leaves alone
Frame == UNCHANGED << config, saved, ndecl, enumOrder, fs0, calls, rets, snap, prompts, lastInput, firstRun, rolled, validated, edit, gui >>

\* what a loop action does to the tree, the journal, the log and the ghosts
Eff(f, j, lg, nf, pf, it) ==
    /\ fs' = f
    /\ journal' = j
    /\ log' = lg
    /\ nfail' = nf
    /\ faultStep' = IF nf > nfail THEN progress.current_step ELSE faultStep
    /\ performed' = pf
    /\ intended' = it

\* the loop goes on inside the same turn, with locals l
Stay(l) ==
    /\ pc' = pc
    /\ loc' = l
    /\ progress' = progress
    /\ lastConfirm' = none.confirm

\* the end of one turn of the inner loop over the entries of a directory
NextEntry(l) ==
    IF Len(l.inner) <= 1
    THEN ItemDone(l, TRUE)
    ELSE Stay([l EXCEPT !.inner = Tail(@), !.n = @ + 1, !.phase = "entry"])

\* ------------------------------------------------------------------- step 1
\* step1_convert, one file: open, flatten, save as .jpg
S1Convert ==
    /\ InLoop(1, "item")
    /\ LET file == Head(loc.todo)
           new_path == Parent(file) \o <<WithSuffix(Name(file), ext.jpg)>>
           forced == ~IsFile(fs, file) \/ IsDir(fs, new_path)
       IN  IF config.dry_run
           THEN /\ Eff(fs, journal,
                       log \cup {LogRec("info", "dry-convert", file, new_path)},
                       nfail, performed,
                       intended \cup {Did("convert", file, new_path)})
                /\ ItemDone(loc, TRUE)
           ELSE \E outcome \in {"ok", "fail", "animated"} :
                /\ forced => outcome = "fail"
                /\ (outcome = "fail" /\ ~forced) => MayFail
                /\ outcome = "animated" => Lower(Suffix(Name(file))) = <<".", "gif">>
                /\ CASE outcome = "ok" ->
                          /\ Eff(WriteNode(fs, new_path, FileNode(fs[file].page)),
                                 journal, log, nfail, performed, intended)
                          /\ Stay([loc EXCEPT !.phase = "rec", !.src = file,
                                              !.dst = new_path])
                     [] outcome = "fail" ->
                          /\ Eff(fs, journal,
                                 log \cup {LogRec("error", "convert", file, NoPath)},
                                 IF forced THEN nfail ELSE nfail + 1, performed, intended)
                          /\ ItemDone(loc, TRUE)
                     [] OTHER ->
                          /\ Eff(fs, journal,
                                 log \cup {LogRec("info", "skip-animated", file, NoPath)},
                                 nfail, performed, intended)
                          /\ ItemDone(loc, FALSE)
    /\ Frame

\* step1_convert: backup_manager.record_operation("delete", file)
S1Record ==
    /\ InLoop(1, "rec")
    /\ Eff(fs, record_operation(journal, "delete", loc.src, NoPath), log, nfail,
           performed, intended)
    /\ Stay([loc EXCEPT !.phase = "unlink"])
    /\ Frame

\* step1_convert: file.unlink()
S1Unlink ==
    /\ InLoop(1, "unlink")
    /\ \E fail \in FailChoices :
        IF fail
        THEN Eff(fs, journal, log \cup {LogRec("error", "convert", loc.src, NoPath)},
                 nfail + 1, performed, intended)
        ELSE Eff(RmTree(fs, loc.src), journal,
                 log \cup {LogRec("info", "convert", loc.src, loc.dst)}, nfail,
                 performed \cup {Did("delete", loc.src, NoPath)}, intended)
    /\ ItemDone(loc, TRUE)
    /\ Frame

\* ------------------------------------------------------------- steps 2 to 5
\* the entries of one candidate directory, as the step lists and sorts them
EntriesOf(k, f, d) ==
    CASE k = 2 ->
            NaturalSorted({p \in ChildrenOf(f, d) :
                              IsFile(f, p) /\ Lower(Suffix(Name(p))) = ext.jpg})
      [] k = 3 ->
            NaturalSorted({p \in ChildrenOf(f, d) :
                              IsDir(f, p) /\ Name(p) \notin SkipDirs})
      [] OTHER -> NaturalSorted(GlobJpgFiles(f, d))

\* steps 2 and 3 list with iterdir(), which raises; steps 4 and 5 with glob()
ListRaises(k, f, d) == k \in {2, 3} /\ CannotList(f, d)

\* the head of one turn of the outer loop of steps 2 to 5
ListEntries ==
    /\ pc = "loop" /\ loc.phase = "item" /\ progress.current_step \in {2, 3, 4, 5}
    /\ LET k == progress.current_step
           d == Head(loc.todo)
           entries == EntriesOf(k, fs, d)
       IN  IF ListRaises(k, fs, d)
           THEN /\ Raise("candidate")
                /\ Eff(fs, journal, log \cup {Crash}, nfail, performed, intended)
           ELSE /\ Eff(fs, journal, log, nfail, performed, intended)
                /\ IF entries = <<>>
                   THEN ItemDone(loc, TRUE)
                   ELSE Stay([loc EXCEPT !.inner = entries, !.n = 0, !.used = {},
                                         !.phase = "entry"])
    /\ Frame

\* safe_rename gives up after this many names
MaxRenameTries == 100

\* safe_rename as it would be if it never looked for a free name
FinalDstBlind(f, dst) == dst

\* safe_rename: the first free name among dst, stem_1 .. stem_99; NoPath if none
FinalDst(f, dst) ==
    LET alt(c) == Parent(dst) \o <<Suffixed(Name(dst), c)>>
        free == {c \in 1..(MaxRenameTries - 1) : ~Exists(f, alt(c))}
    IN  IF ~Exists(f, dst) THEN dst
        ELSE IF free = {} THEN NoPath
        ELSE alt(CHOOSE c \in free : \A e \in free : c <= e)

\* safe_rename as it would be without its dry_run branch
safe_rename_undry(l, src, dst) ==
    IF ~Exists(fs, src) \/ src = dst \/ FinalDst(fs, dst) = NoPath
    THEN /\ Eff(fs, journal, log, nfail, performed, intended)
         /\ NextEntry(l)
    ELSE /\ Eff(fs, record_operation(journal, "rename", src, FinalDst(fs, dst)), log,
                nfail, performed, intended)
         /\ Stay([l EXCEPT !.phase = "rename", !.src = src, !.dst = FinalDst(fs, dst)])

\* safe_rename up to and including its record_operation; l: the caller's locals
safe_rename(l, src, dst) ==
    LET final == FinalDst(fs, dst) IN
    CASE ~Exists(fs, src) ->
            /\ Eff(fs, journal, log \cup {LogRec("error", "no-source", src, NoPath)},
                   nfail, performed, intended)
            /\ NextEntry(l)
      [] Exists(fs, src) /\ config.dry_run ->
            /\ Eff(fs, record_operation(journal, "rename", src, dst),
                   log \cup {LogRec("info", "dry-rename", src, dst)}, nfail, performed,
                   intended \cup {Did("rename", src, dst)})
            /\ NextEntry(l)
      [] Exists(fs, src) /\ ~config.dry_run /\ src = dst ->
            /\ Eff(fs, journal, log, nfail, performed, intended)
            /\ NextEntry(l)
      [] Exists(fs, src) /\ ~config.dry_run /\ src # dst /\ final = NoPath ->
            /\ Eff(fs, journal, log \cup {LogRec("error", "no-unique-name", src, dst)},
                   nfail, performed, intended)
            /\ NextEntry(l)
      [] OTHER ->
            /\ Eff(fs, record_operation(journal, "rename", src, final), log, nfail,
                   performed, intended)
            /\ Stay([l EXCEPT !.phase = "rename", !.src = src, !.dst = final])

\* steps 2 and 3 stop numbering a directory at start_num + this
NumberRange == 10000

\* the first number from start + idx on whose four digits are not used yet
NewNum(start, idx, used) ==
    CHOOSE m \in (start + idx)..(start + idx + Cardinality(used)) :
        /\ Fmt04(m) \notin used
        /\ \A x \in (start + idx)..(m - 1) : Fmt04(x) \in used

\* process_subdir / process_parent, one entry: its number, then safe_rename
RenameEntry ==
    /\ pc = "loop" /\ loc.phase = "entry" /\ progress.current_step \in {2, 3}
    /\ LET k == progress.current_step
           entry == Head(loc.inner)
           new_num == NewNum(config.start_num, loc.n, loc.used)
           new_name == IF k = 2 THEN Fmt04(new_num) \o ext.jpg ELSE Fmt04(new_num)
           new_path == Parent(entry) \o <<new_name>>
       IN  IF new_num >= config.start_num + NumberRange
           THEN /\ Eff(fs, journal, log \cup {LogRec("error", "overflow", entry, NoPath)},
                       nfail, performed, intended)
                /\ ItemDone(loc, TRUE)
           ELSE safe_rename([loc EXCEPT !.used = @ \cup {Fmt04(new_num)}], entry,
                            new_path)
    /\ Frame

\* step4_add_prefix, one file, as it would be if it prefixed every name
PrefixEntryAll ==
    /\ InLoop(4, "entry")
    /\ LET file == Head(loc.inner)
           dir_num == Name(Head(loc.todo))
           new_path == Parent(file) \o <<dir_num \o <<"_">> \o Name(file)>>
       IN  safe_rename(loc, file, new_path)
    /\ Frame

\* step4_add_prefix, one file: skip names with "_", else safe_rename
PrefixEntry ==
    /\ InLoop(4, "entry")
    /\ LET file == Head(loc.inner)
           dir_num == Name(Head(loc.todo))
           new_path == Parent(file) \o <<dir_num \o <<"_">> \o Name(file)>>
       IN  IF \E i \in 1..Len(Name(file)) : Name(file)[i] = "_"
           THEN /\ Eff(fs, journal, log, nfail, performed, intended)
                /\ NextEntry(loc)
           ELSE safe_rename(loc, file, new_path)
    /\ Frame

\* safe_rename: src.rename(final_dst)
SafeRenameDo ==
    /\ pc = "loop" /\ loc.phase = "rename"
    /\ \E fail \in FailChoices :
        IF fail
        THEN Eff(fs, journal, log \cup {LogRec("error", "rename", loc.src, loc.dst)},
                 nfail + 1, performed, intended)
        ELSE Eff(MovePath(fs, loc.src, loc.dst), journal,
                 log \cup {LogRec("info", "rename", loc.src, loc.dst)}, nfail,
                 performed \cup {Did("rename", loc.src, loc.dst)}, intended)
    /\ NextEntry(loc)
    /\ Frame

\* step 5's choice of a name as it would be if it never looked at the parent
\* directory
MoveTargetBlind(f, file, parent_dir) == parent_dir \o <<Name(file)>>

\* ------------------------------------------------------------------- step 5
\* step5_move_files: the first free name among base, stem_1 .. stem_99 in the
\* parent directory; NoPath when the loop leaves with counter > 100
MoveTarget(f, file, parent_dir) ==
    LET alt(c) == parent_dir \o <<Suffixed(Name(file), c)>>
        free == {c \in 1..(MaxMoveTries - 1) : ~Exists(f, alt(c))}
    IN  IF ~Exists(f, parent_dir \o <<Name(file)>>) THEN parent_dir \o <<Name(file)>>
        ELSE IF free = {} THEN NoPath
        ELSE alt(CHOOSE c \in free : \A e \in free : c <= e)

\* step5_move_files, one file: find the name, shutil.move
S5Move ==
    /\ InLoop(5, "entry")
    /\ LET file == Head(loc.inner)
           new_path == MoveTarget(fs, file, Parent(Head(loc.todo)))
       IN  IF new_path = NoPath
           THEN /\ Eff(fs, journal, log \cup {LogRec("error", "no-unique-name", file, NoPath)},
                       nfail, performed, intended)
                /\ NextEntry(loc)
           ELSE IF config.dry_run
           THEN /\ Eff(fs, journal, log, nfail, performed,
                       intended \cup {Did("move", file, new_path)})
                /\ NextEntry(loc)
           ELSE \E fail \in FailChoices :
                IF fail
                THEN /\ Eff(fs, journal, log \cup {LogRec("error", "move", file, NoPath)},
                            nfail + 1, performed, intended)
                     /\ NextEntry(loc)
                ELSE /\ Eff(MovePath(fs, file, new_path), journal, log, nfail,
                            performed \cup {Did("move", file, new_path)}, intended)
                     /\ Stay([loc EXCEPT !.phase = "moverec", !.src = file,
                                         !.dst = new_path])
    /\ Frame

\* step5_move_files: backup_manager.record_operation("move", file, new_path)
S5Record ==
    /\ InLoop(5, "moverec")
    /\ Eff(fs, record_operation(journal, "move", loc.src, loc.dst),
           log \cup {LogRec("info", "move", loc.src, loc.dst)}, nfail, performed, intended)
    /\ NextEntry(loc)
    /\ Frame

\* ------------------------------------------------------------------- step 6
\* step6_clean_dirs, one directory: if it lists empty, path.rmdir()
S6Remove ==
    /\ InLoop(6, "item")
    /\ LET path == Head(loc.todo) IN
       IF CannotList(fs, path)
       THEN /\ Eff(fs, journal, log \cup {LogRec("error", "rmdir", path, NoPath)}, nfail,
                   performed, intended)
            /\ ItemDone(loc, TRUE)
       ELSE IF ChildrenOf(fs, path) # {}
       THEN /\ Eff(fs, journal, log, nfail, performed, intended)
            /\ ItemDone(loc, TRUE)
       ELSE IF config.dry_run
       THEN /\ Eff(fs, journal, log, nfail, performed,
                   intended \cup {Did("delete", path, NoPath)})
            /\ ItemDone(loc, TRUE)
       ELSE \E fail \in FailChoices :
            IF fail
            THEN /\ Eff(fs, journal, log \cup {LogRec("error", "rmdir", path, NoPath)},
                        nfail + 1, performed, intended)
                 /\ ItemDone(loc, TRUE)
            ELSE /\ Eff(RmTree(fs, path), journal, log, nfail,
                        performed \cup {Did("delete", path, NoPath)}, intended)
                 /\ Stay([loc EXCEPT !.phase = "rmrec", !.src = path])
    /\ Frame

\* step6_clean_dirs: backup_manager.record_operation("delete", path)
S6Record ==
    /\ InLoop(6, "rmrec")
    /\ Eff(fs, record_operation(journal, "delete", loc.src, NoPath),
           log \cup {LogRec("info", "rmdir", loc.src, NoPath)}, nfail, performed, intended)
    /\ ItemDone(loc, TRUE)
    /\ Frame

\* ------------------------------------------------------------------- step 7
\* the directory tempfile.TemporaryDirectory(dir=root) makes
TempDir == <<nm.tmpdir>>

\* step7_final_rename, one parent directory: make the staging directory and
\* list the .jpg files
S7Enter ==
    /\ InLoop(7, "item")
    /\ LET files == NaturalSorted(GlobJpgFiles(fs, Head(loc.todo))) IN
       /\ Eff(WriteNode(fs, TempDir, DirNode), journal, log, nfail, performed, intended)
       /\ Stay([loc EXCEPT !.inner = files, !.tmp = <<>>, !.n = 0,
                           !.phase = IF files = <<>> THEN "exit" ELSE "out"])
    /\ Frame

\* the end of one turn of phase 1
S7AfterOut(l) ==
    LET rest == Tail(l.inner) IN
    Stay([l EXCEPT !.inner = rest, !.n = 0,
                   !.phase = IF rest # <<>> THEN "out"
                             ELSE IF l.tmp # <<>> THEN "back" ELSE "exit"])

\* the end of one turn of phase 2 as it would be if the index ran by twos
S7AfterBackSkipping(l) ==
    LET rest == Tail(l.tmp) IN
    Stay([l EXCEPT !.tmp = rest, !.n = @ + 2,
                   !.phase = IF rest # <<>> THEN "back" ELSE "exit"])

\* the end of one turn of phase 2
S7AfterBack(l) ==
    LET rest == Tail(l.tmp) IN
    Stay([l EXCEPT !.tmp = rest, !.n = @ + 1,
                   !.phase = IF rest # <<>> THEN "back" ELSE "exit"])

\* step 7, phase 1, one file: shutil.move(file, temp_file)
S7MoveOut ==
    /\ InLoop(7, "out")
    /\ LET file == Head(loc.inner)
           temp_file == TempDir \o <<Name(file)>>
       IN  IF config.dry_run
           THEN /\ Eff(fs, journal, log, nfail, performed, intended)
                /\ S7AfterOut([loc EXCEPT !.tmp = Append(@, [orig |-> Name(file),
                                                             path |-> file])])
           ELSE \E fail \in FailChoices :
                IF fail
                THEN /\ Eff(fs, journal, log \cup {LogRec("error", "move-out", file, NoPath)},
                            nfail + 1, performed, intended)
                     /\ S7AfterOut(loc)
                ELSE /\ Eff(MovePath(fs, file, temp_file), journal, log, nfail,
                            performed \cup {Did("move", file, temp_file)}, intended)
                     /\ Stay([loc EXCEPT !.tmp = Append(@, [orig |-> Name(file),
                                                            path |-> temp_file]),
                                         !.phase = "outrec", !.src = file,
                                         !.dst = temp_file])
    /\ Frame

\* step 7, phase 1: backup_manager.record_operation("move", file, temp_file)
S7RecordOut ==
    /\ InLoop(7, "outrec")
    /\ Eff(fs, record_operation(journal, "move", loc.src, loc.dst), log, nfail,
           performed, intended)
    /\ S7AfterOut(loc)
    /\ Frame

\* shutil.move(src, dst): into dst when dst is a directory
RealDst(f, src, dst) == IF IsDir(f, dst) THEN dst \o <<Name(src)>> ELSE dst

\* step 7, phase 2, one file: shutil.move(temp_file, new_path)
S7MoveBack ==
    /\ InLoop(7, "back")
    /\ LET entry == Head(loc.tmp)
           new_name == Fmt04(loc.n + 1) \o ext.jpg
           new_path == Head(loc.todo) \o <<new_name>>
           real_dst == RealDst(fs, entry.path, new_path)
           forced == IsDir(fs, new_path) /\ Exists(fs, real_dst)
       IN  IF config.dry_run
           THEN /\ Eff(fs, journal,
                       log \cup {LogRec("info", "dry-rename", entry.path, new_path)},
                       nfail, performed,
                       intended \cup {Did("rename", entry.path, new_path)})
                /\ S7AfterBack(loc)
           ELSE \E fail \in FailChoices \cup {forced} :
                /\ forced => fail
                /\ IF fail
                   THEN /\ Eff(fs, journal,
                               log \cup {LogRec("error", "move-back", entry.path, NoPath)},
                               IF forced THEN nfail ELSE nfail + 1, performed, intended)
                        /\ S7AfterBack(loc)
                   ELSE /\ Eff(MovePath(fs, entry.path, real_dst), journal, log, nfail,
                               performed \cup {Did("move", entry.path, new_path)}, intended)
                        /\ Stay([loc EXCEPT !.phase = "backrec", !.src = entry.path,
                                            !.dst = new_path])
    /\ Frame

\* step 7, phase 2: backup_manager.record_operation("move", temp_file, new_path)
S7RecordBack ==
    /\ InLoop(7, "backrec")
    /\ Eff(fs, record_operation(journal, "move", loc.src, loc.dst),
           log \cup {LogRec("info", "renumber", loc.src, loc.dst)}, nfail, performed,
           intended)
    /\ S7AfterBack(loc)
    /\ Frame

\* step 7: leaving the with block removes the staging directory and all in it
S7Exit ==
    /\ InLoop(7, "exit")
    /\ Eff(RmTree(fs, TempDir), journal, log, nfail,
           performed \cup {Did("delete", q, NoPath) :
                              q \in {r \in DOMAIN fs : IsUnder(r, TempDir) /\ r # TempDir}},
           intended)
    /\ ItemDone(loc, TRUE)
    /\ Frame

\* ------------------------------------------------------------------- step 8
\* directory.with_suffix('.zip')
ZipPath(directory) == Parent(directory) \o <<WithSuffix(Name(directory), ext.zip)>>

\* directory.with_suffix(f'.tmp_{unique_id}.zip')
TempZipPath(directory) ==
    Parent(directory) \o <<WithSuffix(Name(directory), <<".", "tmp", "_", "0", ".", "zip">>)>>

\* sorted(directory.glob('*.jpg'), key=natural_sort_key)
ZipSources(f, directory) ==
    NaturalSorted({p \in ChildrenOf(f, directory) :
                      EndsWith(Name(p), ext.jpg) /\ ~Hidden(f, p)})

\* step8_compress, one leaf directory: write the temporary archive, verify it
S8Archive ==
    /\ InLoop(8, "item")
    /\ LET directory == Head(loc.todo)
           zip_file == ZipPath(directory)
           temp_zip == TempZipPath(directory)
           jpg_files == ZipSources(fs, directory)
           members == [i \in 1..Len(jpg_files) |->
                          [name |-> Name(jpg_files[i]), page |-> fs[jpg_files[i]].page]]
           l == [loc EXCEPT !.src = directory, !.dst = zip_file]
       IN  IF config.dry_run
           THEN /\ Eff(fs, journal,
                       log \cup {LogRec("info", "dry-compress", directory, zip_file)},
                       nfail, performed,
                       intended \cup {Did("create", directory, zip_file)})
                /\ ItemDone(loc, TRUE)
           ELSE \E fail \in FailChoices, left \in {"none", "part", "all"} :
                IF fail
                THEN /\ Eff(CASE left = "none" -> fs
                              [] left = "part" -> WriteNode(fs, temp_zip, ZipNode(<<>>))
                              [] OTHER -> WriteNode(fs, temp_zip, ZipNode(members)),
                            journal, log, nfail + 1, performed, intended)
                     /\ Stay([l EXCEPT !.phase = "cleanup"])
                ELSE /\ left = "all"
                     /\ Eff(WriteNode(fs, temp_zip, ZipNode(members)), journal, log,
                            nfail, performed, intended)
                     /\ Stay([l EXCEPT !.phase = "replace"])
    /\ Frame

\* step8_compress: unlink a prior archive, temp_zip.rename(zip_file)
S8Replace ==
    /\ InLoop(8, "replace")
    /\ LET zip_file == loc.dst
           temp_zip == TempZipPath(loc.src)
           prior == Exists(fs, zip_file)
           forced == IsDir(fs, zip_file)
           unlinked == IF prior THEN {Did("delete", zip_file, NoPath)} ELSE {}
       IN  \E outcome \in {"ok", "unlink-fails", "rename-fails"} :
           /\ forced => outcome = "unlink-fails"
           /\ outcome = "unlink-fails" => prior
           /\ (outcome # "ok" /\ ~forced) => MayFail
           /\ CASE outcome = "ok" ->
                     /\ Eff(MovePath(fs, temp_zip, zip_file), journal, log, nfail,
                            performed \cup unlinked
                                      \cup {Did("create", zip_file, NoPath)}, intended)
                     /\ Stay([loc EXCEPT !.phase = "reccreate"])
                [] outcome = "unlink-fails" ->
                     /\ Eff(fs, journal, log, IF forced THEN nfail ELSE nfail + 1,
                            performed, intended)
                     /\ Stay([loc EXCEPT !.phase = "cleanup"])
                [] OTHER ->
                     /\ Eff(RmTree(fs, zip_file), journal, log, nfail + 1,
                            performed \cup unlinked, intended)
                     /\ Stay([loc EXCEPT !.phase = "cleanup"])
    /\ Frame

\* step8_compress: backup_manager.record_operation("create", zip_file)
S8RecordCreate ==
    /\ InLoop(8, "reccreate")
    /\ Eff(fs, record_operation(journal, "create", loc.dst, NoPath), log, nfail,
           performed, intended)
    /\ Stay([loc EXCEPT !.phase = "rmtree"])
    /\ Frame

\* step8_compress: shutil.rmtree(directory); a failure may come after some of
\* the directory's entries are gone
S8Rmtree ==
    /\ InLoop(8, "rmtree")
    /\ \E fail \in FailChoices :
        IF fail
        THEN \E gone \in SUBSET ChildrenOf(fs, loc.src) :
                /\ Eff([q \in {r \in DOMAIN fs : \A g \in gone : ~IsUnder(r, g)} |-> fs[q]],
                       journal, log, nfail + 1,
                       performed \cup {Did("delete", g, NoPath) : g \in gone}, intended)
                /\ Stay([loc EXCEPT !.phase = "cleanup"])
        ELSE /\ Eff(RmTree(fs, loc.src), journal, log, nfail,
                    performed \cup {Did("delete", loc.src, NoPath)}, intended)
             /\ Stay([loc EXCEPT !.phase = "recdelete"])
    /\ Frame

\* step8_compress: backup_manager.record_operation("delete", directory)
S8RecordDelete ==
    /\ InLoop(8, "recdelete")
    /\ Eff(fs, record_operation(journal, "delete", loc.src, NoPath),
           log \cup {LogRec("info", "compress", loc.src, loc.dst)}, nfail, performed,
           intended)
    /\ ItemDone(loc, TRUE)
    /\ Frame

\* step8_compress's except branch: log, unlink the temporary archive, continue
S8Cleanup ==
    /\ InLoop(8, "cleanup")
    /\ LET temp_zip == TempZipPath(loc.src)
           failed == log \cup {LogRec("error", "compress", loc.src, NoPath)}
       IN  IF ~Exists(fs, temp_zip)
           THEN Eff(fs, journal, failed, nfail, performed, intended)
           ELSE \E fail \in FailChoices :
                IF fail
                THEN Eff(fs, journal,
                         failed \cup {LogRec("error", "cleanup", temp_zip, NoPath)},
                         nfail + 1, performed, intended)
                ELSE Eff(RmTree(fs, temp_zip), journal,
                         failed \cup {LogRec("info", "cleanup", temp_zip, NoPath)},
                         nfail, performed, intended)
    /\ ItemDone(loc, FALSE)
    /\ Frame

\* ------------------------------------------------------------------- step 9
\* step9_rename_cbz, one archive: zip_file.rename(cbz_file)
S9Rename ==
    /\ InLoop(9, "item")
    /\ LET zip_file == Head(loc.todo)
           cbz_file == Parent(zip_file) \o <<WithSuffix(Name(zip_file), ext.cbz)>>
           forced == IsDir(fs, cbz_file) \/ ~Exists(fs, zip_file)
       IN  IF config.dry_run
           THEN /\ Eff(fs, journal,
                       log \cup {LogRec("info", "dry-cbz", zip_file, cbz_file)}, nfail,
                       performed, intended \cup {Did("rename", zip_file, cbz_file)})
                /\ ItemDone(loc, TRUE)
           ELSE \E fail \in FailChoices \cup {forced} :
                /\ forced => fail
                /\ IF fail
                   THEN /\ Eff(fs, journal,
                               log \cup {LogRec("error", "cbz", zip_file, NoPath)},
                               IF forced THEN nfail ELSE nfail + 1, performed, intended)
                        /\ ItemDone(loc, TRUE)
                   ELSE /\ Eff(MovePath(fs, zip_file, cbz_file), journal, log, nfail,
                               performed \cup {Did("rename", zip_file, cbz_file)}, intended)
                        /\ Stay([loc EXCEPT !.phase = "cbzrec", !.src = zip_file,
                                            !.dst = cbz_file])
    /\ Frame

\* step9_rename_cbz: backup_manager.record_operation("rename", zip_file, cbz_file)
S9Record ==
    /\ InLoop(9, "cbzrec")
    /\ Eff(fs, record_operation(journal, "rename", loc.src, loc.dst),
           log \cup {LogRec("info", "cbz", loc.src, loc.dst)}, nfail, performed, intended)
    /\ ItemDone(loc, TRUE)
    /\ Frame

\* ------------------------------------------------- rollback and the ways out
\* Path.mkdir(parents=True, exist_ok=True)
MkDirs(f, d) ==
    [q \in DOMAIN f \cup {SubSeq(d, 1, i) : i \in 1..Len(d)} |->
        IF q \in DOMAIN f THEN f[q] ELSE DirNode]

\* BackupManager.rollback, one journal record; what raises is caught and logged
RollbackOp(f, op) ==
    CASE op.operation = "rename" ->
            IF Exists(f, op.target) /\ ~Exists(f, op.source) /\ IsDir(f, Parent(op.source))
            THEN MovePath(f, op.target, op.source)
            ELSE f
      [] op.operation = "move" ->
            IF ~Exists(f, op.target)
                  \/ \E i \in 1..(Len(op.source) - 1) : IsFile(f, SubSeq(op.source, 1, i))
            THEN f
            ELSE IF IsDir(f, op.target)
            THEN MkDirs(f, Parent(op.source))
            ELSE WriteNode(MkDirs(f, Parent(op.source)),
                           RealDst(f, op.target, op.source), f[op.target])
      [] OTHER -> f

\* whether rollback's branch for op finds something to restore
RollbackActs(f, op) ==
    CASE op.operation = "rename" -> Exists(f, op.target) /\ ~Exists(f, op.source)
      [] op.operation = "move" -> Exists(f, op.target)
      [] OTHER -> FALSE

\* whether restoring op raises of itself: the renamed entry's directory is
\* gone, a file stands where a directory of the moved file's path has to be
\* made, or shutil.copy2 is given a directory
RollbackRaises(f, op) ==
    /\ RollbackActs(f, op)
    /\ CASE op.operation = "rename" -> ~IsDir(f, Parent(op.source))
         [] OTHER ->
              \/ \E i \in 1..(Len(op.source) - 1) : IsFile(f, SubSeq(op.source, 1, i))
              \/ IsDir(f, op.target)

\* one turn of rollback's loop, over the record at place i of the journal;
\* fail: src.rename or shutil.copy2 raises for a reason outside the tree.
\* Whatever is raised is caught and logged and the loop goes on
RollbackVisit(st, op, i, fail) ==
    LET f == st.fs
        acts == RollbackActs(f, op)
        raises == acts /\ (fail \/ RollbackRaises(f, op))
    IN  [ fs |-> IF ~(fail /\ acts) THEN RollbackOp(f, op)
                 ELSE IF op.operation = "move" /\ ~RollbackRaises(f, op)
                 THEN MkDirs(f, Parent(op.source))
                 ELSE f,
          log |-> st.log
                  \cup (IF op.operation = "delete"
                        THEN {LogRec("warning", "rollback-delete", op.source, NoPath)}
                        ELSE {})
                  \cup (IF raises THEN {LogRec("error", "rollback", op.target, op.source)}
                        ELSE {})
                  \cup (IF acts /\ ~raises
                        THEN {LogRec("info", "rollback", op.target, op.source)}
                        ELSE {}),
          visited |-> Append(st.visited, i),
          failed |-> IF raises THEN st.failed \cup {i} ELSE st.failed ]

\* rollback's loop as it would be if the first exception ended it
RECURSIVE RollbackLoopStopping(_, _, _, _)
RollbackLoopStopping(st, j, order, failing) ==
    IF order = <<>> \/ st.failed # {} THEN st
    ELSE RollbackLoopStopping(RollbackVisit(st, j[Head(order)], Head(order),
                                            Head(order) \in failing),
                              j, Tail(order), failing)

\* rollback's loop over the places of the journal given by order, the try
\* block inside it; failing: the places whose restoring call is made to raise
RECURSIVE RollbackLoop(_, _, _, _)
RollbackLoop(st, j, order, failing) ==
    IF order = <<>> THEN st
    ELSE RollbackLoop(RollbackVisit(st, j[Head(order)], Head(order),
                                    Head(order) \in failing),
                      j, Tail(order), failing)

\* what rollback starts from on the tree f
RollbackStart(f) == [fs |-> f, log |-> {}, visited |-> <<>>, failed |-> {}]

\* rollback as it would be if it went through the journal first to last
rollback_forward(f, j, failing) ==
    RollbackLoop(RollbackStart(f), j, [i \in 1..Len(j) |-> i], failing)

\* BackupManager.rollback: for op in reversed(self.operation_log)
rollback(f, j, failing) ==
    RollbackLoop(RollbackStart(f), j, [i \in 1..Len(j) |-> Len(j) - i + 1], failing)

\* the sets of at most k of the places 1 .. n
RECURSIVE UpTo(_, _)
UpTo(n, k) ==
    IF k = 0 THEN {{}}
    ELSE UpTo(n, k - 1) \cup {S \cup {i} : S \in UpTo(n, k - 1), i \in 1..n}

\* the places of the journal j a rollback may be made to fail on: some of its
\* renames and moves, and only when main() was left between two steps
FailingPlaces(j) ==
    IF pc = "main"
    THEN UpTo(Len(j), MaxRollbackFail)
         \cap SUBSET {i \in 1..Len(j) : j[i].operation \in {"rename", "move"}}
    ELSE {{}}

\* what main()'s two except branches leave alone
FrameExit ==
    UNCHANGED << config, saved, journal, progress, enumOrder, nfail, faultStep, ndecl,
                 fs0, calls, rets, snap, intended, prompts, firstRun, validated, edit, gui >>

\* an except branch of main(): step 7's TemporaryDirectory is removed on the
\* way out, then in interactive mode the rollback is offered and, on "y", run
Leave(lg, to) ==
    LET staged == {q \in DOMAIN fs : IsUnder(q, TempDir) /\ q # TempDir}
        left == IF Exists(fs, TempDir) THEN RmTree(fs, TempDir) ELSE fs
    IN  /\ IF config.interactive_mode
           THEN \E raw \in MainAnswers, failing \in FailingPlaces(journal) :
                   LET yes == StripLower(raw) = "y"
                       done == rollback(left, journal, failing)
                   IN  /\ failing \subseteq (IF yes THEN done.failed ELSE {})
                       /\ lastInput' = [prompt |-> "rollback", answer |-> StripLower(raw)]
                       /\ fs' = IF yes THEN done.fs ELSE left
                       /\ log' = IF yes THEN log \cup {lg} \cup done.log ELSE log \cup {lg}
                       /\ rolled' = IF yes
                                    THEN [ran |-> TRUE, visited |-> done.visited,
                                          failed |-> done.failed]
                                    ELSE none.rollback
           ELSE /\ lastInput' = none.input
                /\ fs' = left
                /\ log' = log \cup {lg}
                /\ rolled' = none.rollback
        /\ performed' = performed \cup {Did("delete", q, NoPath) : q \in staged}
        /\ pc' = to
        /\ loc' = none.loc
        /\ lastConfirm' = none.confirm
        /\ FrameExit

\* main(): except KeyboardInterrupt, for an interruption that arrives anywhere
\* inside the try block; main() then returns
KeyboardInterrupt ==
    /\ pc \in {"main", "enum", "confirm", "loop", "ret"}
    /\ nfail = 0 /\ ndecl = 0
    /\ Leave(LogRec("warning", "interrupted", <<>>, <<>>), "returned")

\* main(): except Exception, which ends in sys.exit(1)
HandleFatal ==
    /\ pc = "fatal"
    /\ Leave(Crash, "exit1")

Next ==
    \/ Validate
    \/ CheckDisk
    \/ LowDisk
    \/ Backup
    \/ NoBackup
    \/ ConfirmConfig
    \/ StepStart
    \/ Enumerate
    \/ Confirm
    \/ StepReturn
    \/ Finish
    \/ S1Convert
    \/ S1Record
    \/ S1Unlink
    \/ ListEntries
    \/ RenameEntry
    \/ PrefixEntry
    \/ SafeRenameDo
    \/ S5Move
    \/ S5Record
    \/ S6Remove
    \/ S6Record
    \/ S7Enter
    \/ S7MoveOut
    \/ S7RecordOut
    \/ S7MoveBack
    \/ S7RecordBack
    \/ S7Exit
    \/ S8Archive
    \/ S8Replace
    \/ S8RecordCreate
    \/ S8Rmtree
    \/ S8RecordDelete
    \/ S8Cleanup
    \/ S9Rename
    \/ S9Record
    \/ KeyboardInterrupt
    \/ HandleFatal

Spec == Init /\ [][Next]_vars

\* ------------------------------------------------- ConfigManager.__init__
\* the documents config.json may be: absent, unparseable, or an object holding
\* any subset of the known keys, with or without the unknown key "comment"
Documents ==
    LET keys == DOMAIN DEFAULT_CONFIG \cup {"comment"}
        objects == UNION { { [k \in K |-> IF k = "start_num" THEN n ELSE b[k]] :
                               n \in StartNums, b \in [keys -> BOOLEAN] } :
                           K \in SUBSET keys }
    IN  {[present |-> FALSE, parseable |-> TRUE, cfg |-> DEFAULT_CONFIG],
         [present |-> TRUE, parseable |-> FALSE, cfg |-> DEFAULT_CONFIG]}
        \cup {[present |-> TRUE, parseable |-> TRUE, cfg |-> c] : c \in objects}

\* load_config as it would be if it took the document as it stands
load_config_whole(doc) == IF doc.present /\ doc.parseable THEN doc.cfg ELSE DEFAULT_CONFIG

\* ConfigManager.load_config on top of DEFAULT_CONFIG.copy()
load_config(doc) ==
    IF doc.present /\ doc.parseable
    THEN [key \in DOMAIN DEFAULT_CONFIG |->
             IF key \in DOMAIN doc.cfg THEN doc.cfg[key] ELSE DEFAULT_CONFIG[key]]
    ELSE DEFAULT_CONFIG

\* the state in which ConfigManager.__init__ calls load_config
InitLoad ==
    /\ fs = tree.example
    /\ config = DEFAULT_CONFIG
    /\ saved \in Documents
    /\ journal = <<>>
    /\ log = {}
    /\ progress = [current_step |-> 0, num |-> 0, den |-> 1]
    /\ pc = "load"
    /\ loc = none.loc
    /\ enumOrder = "fwd"
    /\ nfail = 0
    /\ faultStep = 0
    /\ ndecl = 0
    /\ fs0 = fs
    /\ calls = <<>>
    /\ rets = <<>>
    /\ performed = {}
    /\ snap = [fs |-> fs, journal |-> <<>>]
    /\ lastConfirm = none.confirm
    /\ intended = {}
    /\ prompts = <<>>
    /\ lastInput = none.input
    /\ firstRun = none.run
    /\ rolled = none.rollback
    /\ validated = none.validate
    /\ edit = none.edit
    /\ gui = none.gui

\* ConfigManager.__init__: load_config, which logs and never raises
LoadConfig ==
    /\ pc = "load"
    /\ config' = load_config(saved)
    /\ log' = log \cup {IF saved.present /\ ~saved.parseable
                         THEN LogRec("warning", "load-config", <<>>, <<>>)
                         ELSE LogRec("info", "load-config", <<>>, <<>>)}
    /\ pc' = "validate"
    /\ UNCHANGED << fs, saved, journal, progress, loc, enumOrder, nfail, faultStep,
                    ndecl, fs0, calls, rets, performed, snap, lastConfirm, intended,
                    prompts, lastInput, firstRun, rolled, validated, edit, gui >>

SpecLoad == InitLoad /\ [][LoadConfig]_vars


\* ------------------------------------------------ two runs on the same tree
\* main() as it enters its try block, with every prompt switched off
InitTwice ==
    /\ fs \in {tree.tie, tree.reissued}
    /\ config \in {c \in Configs : /\ c.interactive_mode /\ c.skip_step_confirmations
                                   /\ ~c.backup_enabled}
    /\ saved = [present |-> TRUE, parseable |-> TRUE, cfg |-> config]
    /\ journal = <<>>
    /\ log = {}
    /\ progress = [current_step |-> 0, num |-> 0, den |-> 1]
    /\ pc = "main"
    /\ loc = none.loc
    /\ enumOrder \in {"fwd", "rev"}
    /\ nfail = 0
    /\ faultStep = 0
    /\ ndecl = 0
    /\ fs0 = fs
    /\ calls = <<>>
    /\ rets = <<>>
    /\ performed = {}
    /\ snap = [fs |-> fs, journal |-> <<>>]
    /\ lastConfirm = none.confirm
    /\ intended = {}
    /\ prompts = <<>>
    /\ lastInput = none.input
    /\ firstRun = none.run
    /\ rolled = none.rollback
    /\ validated = none.validate
    /\ edit = none.edit
    /\ gui = none.gui

\* the program is run once more on a copy of the tree the finished run began
\* on, with the same configuration and a filesystem that lists its
\* directories in the other order
RunAgain ==
    /\ pc = "done"
    /\ ~firstRun.done
    /\ firstRun' = [done |-> TRUE, fs |-> fs, prompts |-> prompts]
    /\ enumOrder' = IF enumOrder = "fwd" THEN "rev" ELSE "fwd"
    /\ fs' = fs0
    /\ journal' = <<>>
    /\ log' = {}
    /\ progress' = [current_step |-> 0, num |-> 0, den |-> 1]
    /\ pc' = "main"
    /\ loc' = none.loc
    /\ calls' = <<>>
    /\ rets' = <<>>
    /\ performed' = {}
    /\ snap' = [fs |-> fs0, journal |-> <<>>]
    /\ lastConfirm' = none.confirm
    /\ intended' = {}
    /\ prompts' = <<>>
    /\ UNCHANGED <<config, saved, nfail, faultStep, ndecl, fs0, lastInput, rolled, validated, edit, gui >>

\* the steps of a run in which nothing fails and no image needs converting
NextTwice ==
    \/ StepStart
    \/ Enumerate
    \/ Confirm
    \/ StepReturn
    \/ Finish
    \/ ListEntries
    \/ RenameEntry
    \/ PrefixEntry
    \/ SafeRenameDo
    \/ S5Move
    \/ S5Record
    \/ S6Remove
    \/ S6Record
    \/ S7Enter
    \/ S7MoveOut
    \/ S7RecordOut
    \/ S7MoveBack
    \/ S7RecordBack
    \/ S7Exit
    \/ S8Archive
    \/ S8Replace
    \/ S8RecordCreate
    \/ S8Rmtree
    \/ S8RecordDelete
    \/ S9Rename
    \/ S9Record
    \/ RunAgain

SpecTwice == InitTwice /\ [][NextTwice]_vars

\* ------------------------------------------------- one step, run on its own
\* the calls that are made: step function k of 1 .. 8 on a tree; only step 5
\* is run on the tree whose parent directory holds a hundred and one pages,
\* only step 7 on the tree that holds a directory with a final name, only
\* step 2 on the tree of the pages whose natural order is not their order by
\* name; step 1 is run on the tree of the images that share a stem and step 8
\* on the tree of the directories that share one, and on these alone
StepCalls ==
    { c \in [ step : 1..8,
              fs : {tree.example, tree.numbered, tree.prefixed, tree.crowded,
                    tree.hollow, tree.ordered, tree.gapped, tree.nested,
                    tree.sortable, tree.clash, tree.twins} ] :
        /\ c.fs = tree.crowded => c.step = 5
        /\ c.fs = tree.nested => c.step = 7
        /\ c.fs = tree.sortable => c.step = 2
        /\ c.fs = tree.clash <=> c.step = 1
        /\ c.fs = tree.twins <=> c.step = 8 }

\* main() about to call one step function, unattended
InitStep ==
    /\ \E c \in StepCalls :
          /\ fs = c.fs
          /\ progress = [current_step |-> c.step - 1, num |-> 0, den |-> 1]
    /\ config \in {c \in Configs : ~c.interactive_mode /\ ~c.backup_enabled}
    /\ saved = [present |-> TRUE, parseable |-> TRUE, cfg |-> config]
    /\ journal = <<>>
    /\ log = {}
    /\ pc = "main"
    /\ loc = none.loc
    /\ enumOrder \in {"fwd", "rev"}
    /\ nfail = 0
    /\ faultStep = 0
    /\ ndecl = 0
    /\ fs0 = fs
    /\ calls = <<>>
    /\ rets = <<>>
    /\ performed = {}
    /\ snap = [fs |-> fs, journal |-> <<>>]
    /\ lastConfirm = none.confirm
    /\ intended = {}
    /\ prompts = <<>>
    /\ lastInput = none.input
    /\ firstRun = none.run
    /\ rolled = none.rollback
    /\ validated = none.validate
    /\ edit = none.edit
    /\ gui = none.gui

\* the step function is called: once, and once more after RepeatStep
CallStep ==
    /\ calls = <<>> \/ (firstRun.done /\ Len(calls) = 1)
    /\ StepStart

\* the step function has returned and is about to be called a second time, on
\* the tree it left
RepeatStep ==
    /\ pc = "main"
    /\ Len(rets) = 1
    /\ ~firstRun.done
    /\ firstRun' = [done |-> TRUE, fs |-> fs, prompts |-> prompts]
    /\ progress' = [current_step |-> calls[1] - 1, num |-> 0, den |-> 1]
    /\ UNCHANGED << fs, config, saved, journal, log, pc, loc, enumOrder, nfail, faultStep,
                    ndecl, fs0, calls, rets, performed, snap, lastConfirm, intended,
                    prompts, lastInput, rolled, validated, edit, gui >>

NextStep ==
    \/ CallStep
    \/ Enumerate
    \/ Confirm
    \/ StepReturn
    \/ S1Convert
    \/ S1Record
    \/ S1Unlink
    \/ ListEntries
    \/ RenameEntry
    \/ PrefixEntry
    \/ SafeRenameDo
    \/ S5Move
    \/ S5Record
    \/ S6Remove
    \/ S6Record
    \/ S7Enter
    \/ S7MoveOut
    \/ S7RecordOut
    \/ S7MoveBack
    \/ S7RecordBack
    \/ S7Exit
    \/ S8Archive
    \/ S8Replace
    \/ S8RecordCreate
    \/ S8Rmtree
    \/ S8RecordDelete
    \/ S8Cleanup
    \/ RepeatStep

SpecStep == InitStep /\ [][NextStep]_vars

\* ------------------------------------- validate_structure, called on its own
\* DirectoryValidator(root_dir, config) has been constructed
InitValidate ==
    /\ fs \in { tree.missing, tree.rootfile, tree.sealed, tree.readonly,
                tree.sealedparent, tree.bare, tree.skiponly, tree.pageless,
                tree.flat, tree.example, tree.locked }
    /\ config \in Configs
    /\ saved = [present |-> TRUE, parseable |-> TRUE, cfg |-> config]
    /\ journal = <<>>
    /\ log = {}
    /\ progress = [current_step |-> 0, num |-> 0, den |-> 1]
    /\ pc = "validator"
    /\ loc = none.loc
    /\ enumOrder \in {"fwd", "rev"}
    /\ nfail = 0
    /\ faultStep = 0
    /\ ndecl = 0
    /\ fs0 = fs
    /\ calls = <<>>
    /\ rets = <<>>
    /\ performed = {}
    /\ snap = [fs |-> fs, journal |-> <<>>]
    /\ lastConfirm = none.confirm
    /\ intended = {}
    /\ prompts = <<>>
    /\ lastInput = none.input
    /\ firstRun = none.run
    /\ rolled = none.rollback
    /\ validated = none.validate
    /\ edit = none.edit
    /\ gui = none.gui

\* validator.validate_structure()
CallValidate ==
    /\ pc = "validator"
    /\ ~validated.called
    /\ validated' = [ called |-> TRUE,
                      raised |-> validate_structure(fs, config.dry_run).raised,
                      issues |-> validate_structure(fs, config.dry_run).issues ]
    /\ UNCHANGED << fs, config, saved, journal, log, progress, pc, loc, enumOrder, nfail,
                    faultStep, ndecl, fs0, calls, rets, performed, snap, lastConfirm,
                    intended, prompts, lastInput, firstRun, rolled, edit, gui >>

SpecValidate == InitValidate /\ [][CallValidate]_vars

\* -------------------------------------------- main(): the edit session
\* the menu turns of edit sessions that are followed
MaxEdits == 2

\* main(): the configuration prompt answered "e": edit_interactively is entered
EditConfig ==
    /\ pc \in {"start", "reprompt"}
    /\ pc = "reprompt" \/ (config.interactive_mode /\ ~config.dry_run)
    /\ pc' = "edit"
    /\ edit' = [edit EXCEPT !.open = TRUE, !.began = config, !.ret = "-"]
    /\ lastInput' = none.input
    /\ UNCHANGED << fs, config, saved, journal, log, progress, loc, enumOrder, nfail,
                    faultStep, ndecl, fs0, calls, rets, performed, snap, lastConfirm,
                    intended, prompts, firstRun, rolled, validated, gui >>

\* ConfigManager.edit_interactively, one turn of its menu loop: an option is
\* changed in memory, or the configuration is saved and True returned, or
\* False is returned; the compression level (choice 2) is not among the
\* options followed here, and any other input changes nothing
edit_interactively ==
    /\ pc = "edit"
    /\ \E choice \in {"1", "2", "3", "4", "5", "6", "7", "8", "9"},
          new_val \in {"0", "1", "x"}, fail \in BOOLEAN :
        LET isdigit == new_val \in {"0", "1"}
            changed ==
                CASE choice = "1" /\ isdigit ->
                        [config EXCEPT !.start_num = IF new_val = "0" THEN 0 ELSE 1]
                  [] choice = "3" -> [config EXCEPT !.interactive_mode = ~@]
                  [] choice = "4" -> [config EXCEPT !.skip_step_confirmations = ~@]
                  [] choice = "5" -> [config EXCEPT !.backup_enabled = ~@]
                  [] choice = "6" -> [config EXCEPT !.dry_run = ~@]
                  [] OTHER -> config
            returns == choice \in {"7", "8"}
        IN  /\ choice # "1" => new_val = "x"
            /\ choice # "7" => fail = FALSE
            /\ ~returns => edit.turns < MaxEdits
            /\ config' = changed
            /\ saved' = IF choice = "7" THEN save_config(config, fail) ELSE saved
            /\ log' = IF choice = "7" THEN log \cup SaveLog(fail, "save-edited") ELSE log
            /\ edit' = CASE choice = "7" -> [edit EXCEPT !.open = FALSE, !.ret = "saved"]
                         [] choice = "8" -> [edit EXCEPT !.open = FALSE, !.ret = "discarded"]
                         [] OTHER -> [edit EXCEPT !.turns = @ + 1]
            /\ pc' = IF returns THEN "reprompt" ELSE "edit"
    /\ UNCHANGED << fs, journal, progress, loc, enumOrder, nfail, faultStep, ndecl, fs0,
                    calls, rets, performed, snap, lastConfirm, intended, prompts,
                    lastInput, firstRun, rolled, validated, gui >>

\* main() at its configuration prompt, the tree being of no account
InitEdit ==
    /\ fs = tree.example
    /\ config \in {c \in Configs : c.interactive_mode /\ ~c.dry_run}
    /\ saved \in { [present |-> FALSE, parseable |-> TRUE, cfg |-> DEFAULT_CONFIG],
                   [present |-> TRUE, parseable |-> TRUE, cfg |-> config] }
    /\ saved.present \/ config = DEFAULT_CONFIG
    /\ journal = <<>>
    /\ log = {}
    /\ progress = [current_step |-> 0, num |-> 0, den |-> 1]
    /\ pc = "start"
    /\ loc = none.loc
    /\ enumOrder = "fwd"
    /\ nfail = 0
    /\ faultStep = 0
    /\ ndecl = 0
    /\ fs0 = fs
    /\ calls = <<>>
    /\ rets = <<>>
    /\ performed = {}
    /\ snap = [fs |-> fs, journal |-> <<>>]
    /\ lastConfirm = none.confirm
    /\ intended = {}
    /\ prompts = <<>>
    /\ lastInput = none.input
    /\ firstRun = none.run
    /\ rolled = none.rollback
    /\ validated = none.validate
    /\ edit = none.edit
    /\ gui = none.gui

NextEdit ==
    \/ ConfirmConfig
    \/ EditConfig
    \/ edit_interactively

SpecEdit == InitEdit /\ [][NextEdit]_vars

\* ------------------------------------------------ the GUI that hosts a run
\* MainWindow.start_processing, for the window's first run: the question box,
\* and on Yes both method buttons disabled, the bar reset, the worker created,
\* its finished signal connected and the thread started
start_processing ==
    /\ pc = "idle"
    /\ gui.buttons
    /\ gui.worker = "-"
    /\ \E method_type \in {"new", "old"}, reply \in {"Yes", "No"} :
          gui' = IF reply = "Yes"
                 THEN [gui EXCEPT !.buttons = FALSE, !.bar = 0, !.worker = "started",
                                  !.method = method_type]
                 ELSE gui
    /\ UNCHANGED << fs, config, saved, journal, log, progress, pc, loc, enumOrder, nfail,
                    faultStep, ndecl, fs0, calls, rets, performed, snap, lastConfirm,
                    intended, prompts, lastInput, firstRun, rolled, validated, edit >>

\* ProcessingWorker.run up to the call of the chosen method: the streams are
\* redirected, chdir (which may raise: finished(False, ..) is emitted and the
\* streams are put back), the cleaner, which catches what it raises, and for
\* the new method input() replaced by the function that answers "y"
WorkerRun ==
    /\ gui.worker = "started"
    /\ \E chdir \in {"ok", "raises"} :
          IF chdir = "raises"
          THEN /\ gui' = [gui EXCEPT !.worker = "returned", !.emitted = @ + 1,
                                     !.queue = Append(@, FALSE)]
               /\ pc' = pc
          ELSE IF gui.method = "new"
          THEN /\ gui' = [gui EXCEPT !.worker = "main", !.stdout = "redirected",
                                     !.input = "auto", !.bar = 40]
               /\ pc' = "validate"
          ELSE /\ gui' = [gui EXCEPT !.worker = "old", !.stdout = "redirected",
                                     !.bar = 40]
               /\ pc' = pc
    /\ UNCHANGED << fs, config, saved, journal, log, progress, loc, enumOrder, nfail,
                    faultStep, ndecl, fs0, calls, rets, performed, snap, lastConfirm,
                    intended, prompts, lastInput, firstRun, rolled, validated, edit >>

\* what the replaced input() lets main() and confirm_operation read: "y" at
\* every prompt, so that nothing is declined or cancelled
AutoInput ==
    /\ lastInput'.answer \in {"", "y"}
    /\ lastConfirm'.response \in {"-", "y"}
    /\ pc' # "cancelled"

\* ProcessingWorker.run from the return of the chosen method on. main() of
\* the new method has returned, has let an exception out (validate_structure
\* raising outside its try block), or has called sys.exit(1); main() of the old
\* method returns or lets an exception out. SystemExit is no Exception: the
\* except branch is passed over, the finally blocks put input() and the
\* streams back, nothing is emitted, and the exception leaves run(), where the
\* binding either ends the thread or brings the process down
WorkerReturn ==
    /\ \/ gui.worker = "main" /\ pc \in {"done", "exit1"}
       \/ gui.worker = "old"
    /\ \E raised \in BOOLEAN, binding \in {"ended", "aborted"} :
          LET exited == /\ gui.worker = "main" /\ pc = "exit1"
                        /\ (Crash \in log \/ ~validate_structure(fs, config.dry_run).raised)
              failed == \/ gui.worker = "main" /\ pc = "exit1" /\ ~exited
                        \/ gui.worker = "old" /\ raised
              back == [gui EXCEPT !.input = "builtin", !.stdout = "console"]
          IN  /\ gui.worker = "main" => ~raised
              /\ ~exited => binding = "ended"
              /\ gui' = IF exited THEN [back EXCEPT !.worker = binding]
                        ELSE IF failed
                        THEN [back EXCEPT !.worker = "returned", !.emitted = @ + 1,
                                          !.queue = Append(@, FALSE)]
                        ELSE [back EXCEPT !.worker = "returned", !.emitted = @ + 1,
                                          !.queue = Append(@, TRUE), !.bar = 100]
    /\ UNCHANGED << fs, config, saved, journal, log, progress, pc, loc, enumOrder, nfail,
                    faultStep, ndecl, fs0, calls, rets, performed, snap, lastConfirm,
                    intended, prompts, lastInput, firstRun, rolled, validated, edit >>

\* MainWindow.processing_finished, the slot of the worker's finished signal,
\* run by the event loop of a window that is still there
processing_finished ==
    /\ gui.queue # <<>>
    /\ gui.worker # "aborted"
    /\ gui' = [gui EXCEPT !.buttons = TRUE, !.queue = Tail(@)]
    /\ UNCHANGED << fs, config, saved, journal, log, progress, pc, loc, enumOrder, nfail,
                    faultStep, ndecl, fs0, calls, rets, performed, snap, lastConfirm,
                    intended, prompts, lastInput, firstRun, rolled, validated, edit >>

\* the window is shown, nothing is running yet; the configuration is the one
\* config.json holds, since the GUI passes no arguments
InitGui ==
    /\ fs \in Trees
    /\ config \in {c \in Configs : /\ c.backup_enabled => (fs \in BackupTrees /\ c.start_num = 0)
                                   /\ c.start_num = 0}
    /\ saved = [present |-> config # DEFAULT_CONFIG, parseable |-> TRUE, cfg |-> config]
    /\ journal = <<>>
    /\ log = {}
    /\ progress = [current_step |-> 0, num |-> 0, den |-> 1]
    /\ pc = "idle"
    /\ loc = none.loc
    /\ enumOrder = "fwd"
    /\ nfail = 0
    /\ faultStep = 0
    /\ ndecl = 0
    /\ fs0 = fs
    /\ calls = <<>>
    /\ rets = <<>>
    /\ performed = {}
    /\ snap = [fs |-> fs, journal |-> <<>>]
    /\ lastConfirm = none.confirm
    /\ intended = {}
    /\ prompts = <<>>
    /\ lastInput = none.input
    /\ firstRun = none.run
    /\ rolled = none.rollback
    /\ validated = none.validate
    /\ edit = none.edit
    /\ gui = none.gui

\* what the worker thread and the event loop do once a run has been started
Hosted ==
    \/ WorkerRun
    \/ Validate /\ AutoInput
    \/ CheckDisk /\ AutoInput
    \/ LowDisk /\ AutoInput
    \/ Backup /\ AutoInput
    \/ NoBackup /\ AutoInput
    \/ ConfirmConfig /\ AutoInput
    \/ StepStart
    \/ Enumerate
    \/ Confirm /\ AutoInput
    \/ StepReturn
    \/ Finish
    \/ S1Convert
    \/ S1Record
    \/ S1Unlink
    \/ ListEntries
    \/ RenameEntry
    \/ PrefixEntry
    \/ SafeRenameDo
    \/ S5Move
    \/ S5Record
    \/ S6Remove
    \/ S6Record
    \/ S7Enter
    \/ S7MoveOut
    \/ S7RecordOut
    \/ S7MoveBack
    \/ S7RecordBack
    \/ S7Exit
    \/ S8Archive
    \/ S8Replace
    \/ S8RecordCreate
    \/ S8Rmtree
    \/ S8RecordDelete
    \/ S8Cleanup
    \/ S9Rename
    \/ S9Record
    \/ HandleFatal /\ AutoInput
    \/ WorkerReturn
    \/ processing_finished

NextGui ==
    \/ start_processing
    \/ Hosted

\* the thread that runs the worker is scheduled and the event loop delivers
\* queued signals: what is enabled of Hosted is eventually done
SpecGui == InitGui /\ [][NextGui]_vars /\ WF_vars(Hosted)

\* ------------------------------------------------------------------- claims
\* C1: in a run that is not aborted the nine step functions are invoked once
\* each, in the order 1 .. 9, and a step is invoked only when every step
\* before it has returned (ran, found nothing, or was declined)
C1_NineStepsInOrder ==
    /\ Len(calls) <= TotalSteps
    /\ \A i \in 1..Len(calls) : calls[i] = i
    /\ \A i \in 1..Len(rets) :
          rets[i].step = i /\ rets[i].outcome \in {"ran", "zero", "declined"}
    /\ Len(rets) \in {Len(calls) - 1, Len(calls)}
    /\ pc \in {"main", "done"} => Len(rets) = Len(calls)
    /\ pc \in {"enum", "confirm", "loop", "ret"} => Len(rets) = Len(calls) - 1
    /\ pc = "done" => Len(calls) = TotalSteps

\* C1: a finished run in which steps ran, found nothing and were declined
C1_FinishedRun ==
    /\ pc = "done"
    /\ {rets[i].outcome : i \in 1..Len(rets)} = {"ran", "zero", "declined"}

\* C2 as stated: every rename, move or delete the steps have carried out has
\* its record in the journal at that moment
C2_JournalBeforeMutation ==
    \A m \in performed : \E i \in 1..Len(journal) : journal[i] = m

\* C3: in a dry run the tree is the tree the run began with, after every step
\* and at the end; inside step 7 it holds the empty staging directory besides
C3_DryRunLeavesTree ==
    config.dry_run =>
        IF pc = "loop" /\ progress.current_step = 7
        THEN fs \in {fs0, WriteNode(fs0, TempDir, DirNode)}
        ELSE fs = fs0

\* C3: a finished dry run whose steps had mutations to report
C3_DryRunFinished ==
    /\ config.dry_run
    /\ pc = "done"
    /\ Cardinality(intended) >= 3
    /\ \E i \in 1..Len(rets) : rets[i].step = 7 /\ rets[i].outcome = "ran"

\* C4 as stated: in a dry run every mutation a step would carry out has an
\* intended-action entry in the log
C4_DryRunLogsEveryIntended ==
    config.dry_run =>
        \A m \in intended :
            \E e \in log :
                /\ e.level = "info"
                /\ e.src = m.source
                /\ e.kind \in CASE m.operation = "convert" -> {"dry-convert"}
                                [] m.operation = "rename" -> {"dry-rename", "dry-cbz"}
                                [] m.operation = "create" -> {"dry-compress"}
                                [] m.operation = "move" -> {"dry-move"}
                                [] OTHER -> {"dry-rmdir"}

\* C5: confirm_operation lets a dry run through unprompted, then a run with
\* skip_step_confirmations set or interactive_mode off; otherwise it prompts,
\* and "", "y" and "a" proceed while every other answer declines; no step is
\* prompted twice, and a declined step returns as declined
C5_ConfirmProtocol ==
    /\ lastConfirm.step # 0 =>
          /\ lastConfirm.dry => ~lastConfirm.prompted /\ lastConfirm.result
          /\ (~lastConfirm.dry /\ (lastConfirm.skip \/ ~lastConfirm.inter)) =>
                ~lastConfirm.prompted /\ lastConfirm.result
          /\ (~lastConfirm.dry /\ ~lastConfirm.skip /\ lastConfirm.inter) =>
                /\ lastConfirm.prompted
                /\ lastConfirm.result <=> lastConfirm.response \in {"", "y", "a"}
          /\ lastConfirm.result => pc = "loop"
          /\ ~lastConfirm.result => pc = "ret" /\ loc.phase = "declined"
    /\ \A i, j \in 1..Len(prompts) : i < j => prompts[i].step < prompts[j].step
    /\ \A i \in 1..Len(prompts), r \in 1..Len(rets) :
          (prompts[i].answer = "decline" /\ rets[r].step = prompts[i].step) =>
              rets[r].outcome = "declined"
    /\ \A i \in 1..Len(prompts) :
          Cardinality({c \in 1..Len(calls) : calls[c] = prompts[i].step}) = 1

\* C5: a finished run in which one prompt was declined and another accepted
C5_DeclinedAndAccepted ==
    /\ pc = "done"
    /\ \E i, j \in 1..Len(prompts) :
          prompts[i].answer = "decline" /\ prompts[j].answer = "proceed"

C7_SkippedStepChangesNothing ==
    /\ (pc = "ret" /\ loc.phase \in {"zero", "declined"}) =>
          /\ fs = snap.fs
          /\ journal = snap.journal
          /\ progress.num = progress.den
          /\ ENABLED StepReturn
    /\ (pc = "main" /\ Len(rets) > 0 /\ rets[Len(rets)].outcome \in {"zero", "declined"}) =>
          /\ fs = snap.fs
          /\ journal = snap.journal
          /\ ENABLED StepStart \/ ENABLED Finish

\* C7: back in main() after a declined step, with an earlier step that found
\* nothing and a journal that is not empty
C7_BackFromDeclined ==
    /\ pc = "main"
    /\ Len(rets) > 0 /\ rets[Len(rets)].outcome = "declined"
    /\ \E r \in 1..Len(rets) : rets[r].outcome = "zero"
    /\ journal # <<>>

\* C8 as stated: a failure while one candidate is processed never leaves the
\* step as an unhandled exception
C8_CandidateFailureContained == ~(pc = "fatal" /\ loc.phase = "candidate")

C11_ArchiveHoldsEveryJpg ==
    InLoop(8, "reccreate") =>
        LET jpgs == NaturalSorted({p \in ChildrenOf(fs, loc.src) :
                        IsFile(fs, p) /\ Lower(Suffix(Name(p))) \in {ext.jpg, ext.jpeg}})
        IN  fs[loc.dst].members =
                [i \in 1..Len(jpgs) |-> [name |-> Name(jpgs[i]), page |-> fs[jpgs[i]].page]]

\* C12: while step 8 runs, for every directory it has reported as failed no
\* temporary archive remains and the directory still holds every file it held
\* when the step began
C12_FailedDirectoryIntact ==
    progress.current_step = 8 =>
        \A r \in log :
            (r.level = "error" /\ r.kind = "compress") =>
                /\ ~Exists(fs, TempZipPath(r.src))
                /\ \A q \in DOMAIN snap.fs :
                       IsUnder(q, r.src) => (q \in DOMAIN fs /\ fs[q] = snap.fs[q])

\* C19: once step 9 has run over its archives in a run that is no dry run, with
\* no step declined and no rename reported as failed, no archive that step 8 created is left under
\* its .zip name, whatever its depth below the root
C19_NoZipRemains ==
    ( /\ \E i \in 1..Len(rets) : rets[i].step = 9 /\ rets[i].outcome = "ran"
      /\ ~config.dry_run
      /\ \A i \in 1..Len(prompts) : prompts[i].answer # "decline"
      /\ ~\E r \in log : r.level = "error" /\ r.kind = "cbz" ) =>
        \A d \in performed :
            (d.operation = "create" /\ EndsWith(Name(d.source), ext.zip)) =>
                ~Exists(fs, d.source)

\* C18: after load_config the configuration has exactly the default keys; a
\* key the document gives (the document being present and parseable) has the
\* document's value and every other key its default, and a document that is
\* absent or cannot be parsed leaves every default in place
C18_LoadedConfig ==
    pc = "validate" =>
        /\ DOMAIN config = DOMAIN DEFAULT_CONFIG
        /\ \A key \in DOMAIN DEFAULT_CONFIG :
               config[key] = IF saved.present /\ saved.parseable /\ key \in DOMAIN saved.cfg
                             THEN saved.cfg[key]
                             ELSE DEFAULT_CONFIG[key]

\* C18: a document with an unknown key and without dry_run has been loaded
C18_PartialDocumentLoaded ==
    /\ pc = "validate"
    /\ saved.present /\ saved.parseable
    /\ "comment" \in DOMAIN saved.cfg
    /\ "dry_run" \notin DOMAIN saved.cfg
    /\ "start_num" \in DOMAIN saved.cfg /\ saved.cfg["start_num"] = 1
    /\ config.start_num = 1

\* C14: when create_backup has failed, main() goes on to the steps only with
\* the decision source's explicit "y" to continuing without a backup
C14_NoBackupConfirmed ==
    [][ (pc = "nobackup" /\ pc' = "start") =>
            lastInput' = [prompt |-> "no-backup", answer |-> "y"] ]_vars

\* C15: when validate_structure has reported issues or validate_disk_space
\* has reported too little free space, main() goes on only with the decision
\* source's explicit "y" to that failure
C15_PreconditionConfirmed ==
    [][ ( /\ \/ pc = "validate" /\ validate_structure(fs, config.dry_run).issues # {}
             \/ pc = "lowdisk"
          /\ pc' \in {"disk", "backup"} ) =>
            (lastInput'.prompt \in {"structure", "disk"} /\ lastInput'.answer = "y") ]_vars

\* C13: when the run is interrupted after steps 1 to 3 have returned and
\* before step 5 is invoked, and the rollback is run and none of its restoring
\* calls raises, every file and directory
\* of the tree the steps began on is back at its path with its content, except
\* the files step 1 deleted, which stay deleted and are each reported by a
\* rollback warning
C13_RollbackRestoresRenames ==
    ( /\ pc = "returned" /\ lastInput.answer = "y" /\ rolled.failed = {}
      /\ Len(rets) >= 3 /\ Len(calls) <= 4 ) =>
        /\ \A p \in DOMAIN fs0 :
              Did("delete", p, NoPath) \notin performed =>
                  (p \in DOMAIN fs /\ fs[p] = fs0[p])
        /\ \A d \in performed :
              d.operation = "delete" =>
                  /\ ~Exists(fs, d.source)
                  /\ LogRec("warning", "rollback-delete", d.source, NoPath) \in log

\* C13: a rollback has been run after steps 1 to 3 converted a file, renamed
\* a file and renamed a directory
C13_RolledBack ==
    /\ pc = "returned" /\ lastInput.answer = "y" /\ rolled.failed = {}
    /\ Len(rets) >= 3 /\ Len(calls) <= 4
    /\ \E d \in performed : d.operation = "delete"
    /\ \E d \in performed : d.operation = "rename" /\ IsDir(fs0, d.source)
    /\ \E d \in performed : d.operation = "rename" /\ IsFile(fs0, d.source)

\* C16: when an unhandled exception has ended the run with exit status 1, a
\* rollback was offered to the decision source
C16_FatalOffersRollback ==
    (pc = "exit1" /\ Crash \in log) => lastInput.prompt = "rollback"

\* C17: when an interruption has ended the run, a rollback was offered to
\* the decision source
C17_InterruptOffersRollback ==
    pc = "returned" => lastInput.prompt = "rollback"

\* C20: two finished runs of the program on the same tree, with the same
\* configuration and the same answers, end with the same tree: the same file
\* names, and the same pages in the same order in every archive, whatever the
\* order in which the filesystem lists a directory
C20_SameResultEitherOrder ==
    (pc = "done" /\ firstRun.done /\ prompts = firstRun.prompts) => fs = firstRun.fs

\* C21: the journal only grows at its end: across every step of the program,
\* rollback included, the journal before is a prefix of the journal after; and
\* a rollback goes through the records of the journal from the last appended to
\* the first, each place once
C21_JournalAppendOnly ==
    /\ [][ /\ Len(journal) <= Len(journal')
           /\ SubSeq(journal', 1, Len(journal)) = journal ]_vars
    /\ [](rolled.ran =>
             rolled.visited = [i \in 1..Len(journal) |-> Len(journal) - i + 1])

\* C21: a rollback has gone through a journal of renames, moves and deletes
C21_RolledBackJournal ==
    /\ rolled.ran
    /\ Len(rolled.visited) >= 5
    /\ {journal[i].operation : i \in 1..Len(journal)} = {"rename", "move", "delete"}

\* C28: a rollback that has run has gone through every place of the journal
\* exactly once, whatever raised on the way, and main() has left the way it
\* leaves after a rollback without failures; every record whose restoring call
\* raised is reported by an error, and the records appended before it were
\* gone through after it, their deletes reported like any other
C28_RollbackBestEffort ==
    rolled.ran =>
        LET at(k) == CHOOSE n \in 1..Len(rolled.visited) : rolled.visited[n] = k IN
        /\ Len(rolled.visited) = Len(journal)
        /\ {rolled.visited[n] : n \in 1..Len(rolled.visited)} = 1..Len(journal)
        /\ pc \in {"returned", "exit1"}
        /\ \A i \in rolled.failed :
              /\ LogRec("error", "rollback", journal[i].target, journal[i].source) \in log
              /\ \A k \in 1..(i - 1) :
                    /\ at(k) > at(i)
                    /\ journal[k].operation = "delete" =>
                          LogRec("warning", "rollback-delete", journal[k].source, NoPath)
                              \in log

\* C28: a rollback in which the restoring call of one record raised and a
\* record appended before that one was restored all the same
C28_RolledBackPastFailure ==
    /\ rolled.ran
    /\ \E i \in rolled.failed : \E k \in 1..(i - 1) :
          /\ journal[k].operation \in {"rename", "move"}
          /\ Exists(fs, journal[k].source)
          /\ ~Exists(fs, journal[i].source)

\* C29: from the moment a delete is in the journal the log holds a record
\* saying that this delete cannot be undone, and a rollback that has run has
\* reported every journalled delete by its warning
C29_DeleteLimitationLogged ==
    \A i \in 1..Len(journal) :
        journal[i].operation = "delete" =>
            /\ \E r \in log : r.kind = "rollback-delete" /\ r.src = journal[i].source
            /\ rolled.ran =>
                  LogRec("warning", "rollback-delete", journal[i].source, NoPath) \in log

C23_MoveNeverOverwrites ==
    [][ InLoop(5, "entry") =>
          LET file == Head(loc.inner)
              parent_dir == Parent(Head(loc.todo))
              names == {Name(file)} \cup {Suffixed(Name(file), c) : c \in 1..(MaxMoveTries - 1)}
              taken == \A n \in names : Exists(fs, parent_dir \o <<n>>)
              failure == \E r \in log' : r.level = "error" /\ r.src = file
          IN  /\ \/ fs' = fs
                 \/ \E n \in names :
                       LET new_path == parent_dir \o <<n>> IN
                       /\ ~Exists(fs, new_path)
                       /\ DOMAIN fs' = (DOMAIN fs \ {file}) \cup {new_path}
                       /\ fs'[new_path] = fs[file]
                       /\ \A q \in DOMAIN fs \ {file} : fs'[q] = fs[q]
              /\ taken => fs' = fs /\ failure
              /\ (fs' = fs /\ ~config.dry_run) => failure ]_vars

\* step 5 has moved one page of a child directory beside the page that held
\* its name, under a suffixed name, and has left the other where it was
\* because the hundred names it tries were all taken
C23_MovedBesideAndLeft ==
    /\ pc = "main" /\ rets = <<[step |-> 5, outcome |-> "ran"]>>
    /\ snap.fs = tree.crowded /\ ~config.dry_run /\ nfail = 0
    /\ IsFile(fs, <<nm.a, nm.b, nm.jpg1>>)
    /\ LogRec("error", "no-unique-name", <<nm.a, nm.b, nm.jpg1>>, NoPath) \in log
    /\ ~Exists(fs, <<nm.a, nm.b, nm.jpg2>>)
    /\ IsFile(fs, <<nm.a, Suffixed(nm.jpg2, 1)>>)
    /\ fs[<<nm.a, Suffixed(nm.jpg2, 1)>>] = tree.crowded[<<nm.a, nm.b, nm.jpg2>>]
    /\ \A q \in DOMAIN tree.crowded \ {<<nm.a, nm.b, nm.jpg2>>} :
          Exists(fs, q) /\ fs[q] = tree.crowded[q]

\* C24: during step 7 no move into the staging directory and no move back into
\* the parent directory targets a path at which something exists: every move
\* leaves every entry other than the one it moves as it was
C24_NoMoveOntoExisting ==
    [][ (InLoop(7, "out") \/ InLoop(7, "back")) =>
          LET src == IF loc.phase = "out" THEN Head(loc.inner) ELSE Head(loc.tmp).path
          IN  \A q \in DOMAIN fs \ {src} : Exists(fs', q) /\ fs'[q] = fs[q] ]_vars

\* C25: step 7 is idempotent when no move fails: a parent directory whose
\* .jpg files are named 0001.jpg .. 000N.jpg keeps every file under its name
\* with what it held, and a second run of step 7 leaves the tree the first
\* run left
C25_StepSevenIdempotent ==
    ( /\ pc = "main" /\ rets # <<>> /\ nfail = 0
      /\ \A i \in 1..Len(rets) : rets[i] = [step |-> 7, outcome |-> "ran"] )
    => /\ \A d \in {ParentDirs(snap.fs)[i] : i \in 1..Len(ParentDirs(snap.fs))} :
             LET files == GlobJpgFiles(snap.fs, d) IN
             {Name(p) : p \in files} = {Fmt04(i) \o ext.jpg : i \in 1..Cardinality(files)}
                => \A p \in files : Exists(fs, p) /\ fs[p] = snap.fs[p]
       /\ Len(rets) = 2 => fs = firstRun.fs

\* C26 as stated: after step 4 has run for real and without a failed rename,
\* every .jpg file of a child directory D whose name held no underscore is
\* named <name of D>_<old name>, every file whose name held one is as it was,
\* and a second run leaves the tree the first run left
C26_PrefixedExactly ==
    ( /\ pc = "main" /\ rets # <<>> /\ nfail = 0 /\ ~config.dry_run
      /\ \A i \in 1..Len(rets) : rets[i] = [step |-> 4, outcome |-> "ran"] )
    => /\ \A d \in {SubDirs(snap.fs)[i] : i \in 1..Len(SubDirs(snap.fs))} :
             \A p \in GlobJpgFiles(snap.fs, d) :
                 LET new_path == d \o <<Name(d) \o <<"_">> \o Name(p)>> IN
                 IF \E i \in 1..Len(Name(p)) : Name(p)[i] = "_"
                 THEN Exists(fs, p) /\ fs[p] = snap.fs[p]
                 ELSE ~Exists(fs, p) /\ Exists(fs, new_path) /\ fs[new_path] = snap.fs[p]
       /\ Len(rets) = 2 => fs = firstRun.fs

\* C26, amended: after step 4 has run for real and without a failed rename,
\* every .jpg file of a child directory D whose name held no underscore is
\* named <name of D>_<old name>, or that name with its stem suffixed _N when
\* the name was taken; every file whose name held an underscore is as it was;
\* the directory holds as many entries as before; and a second run leaves the
\* tree the first run left
C26_PrefixedOrSuffixed ==
    ( /\ pc = "main" /\ rets # <<>> /\ nfail = 0 /\ ~config.dry_run
      /\ \A i \in 1..Len(rets) : rets[i] = [step |-> 4, outcome |-> "ran"] )
    => /\ \A d \in {SubDirs(snap.fs)[i] : i \in 1..Len(SubDirs(snap.fs))} :
             /\ Cardinality(ChildrenOf(fs, d)) = Cardinality(ChildrenOf(snap.fs, d))
             /\ \A p \in GlobJpgFiles(snap.fs, d) :
                   LET new_name == Name(d) \o <<"_">> \o Name(p)
                       names == {new_name}
                                   \cup {Suffixed(new_name, c) : c \in 1..(MaxRenameTries - 1)}
                   IN  IF \E i \in 1..Len(Name(p)) : Name(p)[i] = "_"
                       THEN Exists(fs, p) /\ fs[p] = snap.fs[p]
                       ELSE /\ ~Exists(fs, p)
                            /\ \E n \in names :
                                  /\ Exists(fs, d \o <<n>>) /\ fs[d \o <<n>>] = snap.fs[p]
                                  /\ n # new_name => Exists(snap.fs, d \o <<new_name>>)
       /\ Len(rets) = 2 => fs = firstRun.fs

\* step 4 has run twice on a directory that held a page beside the name its
\* prefixed form would take: the page got the suffixed name, the other kept its
C26_PrefixedBesideTaken ==
    /\ pc = "main" /\ nfail = 0 /\ ~config.dry_run
    /\ rets = <<[step |-> 4, outcome |-> "ran"], [step |-> 4, outcome |-> "ran"]>>
    /\ fs0 = tree.prefixed
    /\ ~Exists(fs, <<nm.a, nm.b, nm.jpg1>>)
    /\ fs[<<nm.a, nm.b, nm.b \o <<"_">> \o nm.jpg1>>] = FileNode(2)
    /\ fs[<<nm.a, nm.b, Suffixed(nm.b \o <<"_">> \o nm.jpg1, 1)>>] = FileNode(1)

\* C27: after step 6 has run for real, confirmed and without a failure, no
\* directory below the root whose name is not skip-listed is empty, the
\* directories that held nothing but empty directories included; and what
\* step 6 removed are directories below which there was no file, every other
\* entry being as it was
C27_NoEmptyDirectoryLeft ==
    ( /\ pc = "main" /\ rets # <<>> /\ nfail = 0 /\ ~config.dry_run
      /\ rets[Len(rets)] = [step |-> 6, outcome |-> "ran"] )
    => /\ \A p \in DOMAIN fs :
             (p # Root /\ IsDir(fs, p) /\ Name(p) \notin SkipDirs) => ChildrenOf(fs, p) # {}
       /\ \A p \in DOMAIN snap.fs :
             IF Exists(fs, p) THEN fs[p] = snap.fs[p]
             ELSE \A q \in DOMAIN snap.fs : IsUnder(q, p) => IsDir(snap.fs, q)
       /\ DOMAIN fs \subseteq DOMAIN snap.fs

\* step 6 has removed a directory that held nothing but a directory that held
\* nothing but an empty directory, all three of them, and left the pages
C27_HollowRemoved ==
    /\ pc = "main" /\ nfail = 0 /\ ~config.dry_run
    /\ rets = <<[step |-> 6, outcome |-> "ran"]>>
    /\ snap.fs = tree.hollow
    /\ ~Exists(fs, <<nm.c>>)
    /\ Did("delete", <<nm.c, nm.b, nm.u>>, NoPath) \in performed
    /\ Did("delete", <<nm.c, nm.b>>, NoPath) \in performed
    /\ Did("delete", <<nm.c>>, NoPath) \in performed
    /\ IsFile(fs, <<nm.a, nm.b, nm.jpg1>>)

\* C30: validate_structure never raises; it returns a non-empty list of issues
\* when the root is missing, is no directory, cannot be read, cannot be written
\* while dry_run is off, has no directory that is not skip-listed, has no such
\* directory that holds one, or holds no file with an image suffix; and an
\* empty list in every other case
C30_ValidateNeverRaises ==
    validated.called =>
        LET dirs(d) == {p \in ChildrenOf(fs, d) : IsDir(fs, p) /\ Name(p) \notin SkipDirs}
            failing ==
                \/ ~Exists(fs, Root)
                \/ ~IsDir(fs, Root)
                \/ ~fs[Root].readable
                \/ ~fs[Root].writable /\ ~config.dry_run
                \/ dirs(Root) = {}
                \/ \A p \in dirs(Root) : dirs(p) = {}
                \/ ~\E p \in DOMAIN fs :
                       IsFile(fs, p) /\ Lower(Suffix(Name(p))) \in ImageExts
        IN  /\ ~validated.raised
            /\ (validated.issues # {}) = failing

\* C31: in every state of the ProgressManager, from its construction on, the
\* task fraction lies in [0,1], the current step does not exceed the number
\* of steps, and the overall progress the display renders in that state lies
\* in [0,1]; step_start raises the current step by one and resets the fraction
C31_ProgressInRange ==
    /\ [](pc \in {"main", "enum", "confirm", "loop", "ret", "done"} =>
             /\ 0 <= progress.num /\ progress.num <= progress.den
             /\ progress.current_step <= TotalSteps
             /\ 0 <= total_progress(progress).num
             /\ total_progress(progress).num <= total_progress(progress).den)
    /\ [][ (pc = "main" /\ pc' = "enum") =>
              /\ progress'.current_step = progress.current_step + 1
              /\ progress'.num = 0 ]_vars

\* C32 as stated: in every list a step has sorted by natural_sort_key, of two
\* names that first differ in a digit run the one with the smaller integer is
\* ahead, of two that first differ in a non-digit run the one whose
\* case-folded text is smaller is ahead, and comparing the keys of two names
\* never raises
C32_NaturalOrder ==
    (pc = "loop" /\ progress.current_step \in {2, 3, 4, 5} /\ loc.inner # <<>>) =>
        LET name(i) == Name(loc.inner[i])
            runs(a) == SplitRuns(a, FALSE)
            differ(a, b) ==
                {i \in 1..Len(runs(a)) :
                    /\ i <= Len(runs(b))
                    /\ IF i % 2 = 0 THEN RunVal(runs(a)[i]) # RunVal(runs(b)[i])
                       ELSE Lower(runs(a)[i]) # Lower(runs(b)[i])}
            first(a, b) == CHOOSE i \in differ(a, b) : \A k \in differ(a, b) : i <= k
            ahead(a, b) ==
                /\ differ(a, b) # {}
                /\ IF first(a, b) % 2 = 0
                   THEN RunVal(runs(a)[first(a, b)]) < RunVal(runs(b)[first(a, b)])
                   ELSE SeqLess(Lower(runs(a)[first(a, b)]), Lower(runs(b)[first(a, b)]))
        IN  \A i, j \in 1..Len(loc.inner) :
               /\ ~KeyCompareRaises(name(i), name(j))
               /\ i < j => ~ahead(name(j), name(i))

\* C32, amended: the same, for the names whose key is computed without the
\* except branch; two names that both fall back to the single-string key are
\* ordered by their whole case-folded names; comparing the keys of two names
\* never raises
C32_NaturalOrderUnlessFallback ==
    (pc = "loop" /\ progress.current_step \in {2, 3, 4, 5} /\ loc.inner # <<>>) =>
        LET name(i) == Name(loc.inner[i])
            runs(a) == SplitRuns(a, FALSE)
            fallback(a) ==
                \E i \in 1..Len(runs(a)) :
                    /\ i % 2 = 1 /\ runs(a)[i] # <<>>
                    /\ \A k \in 1..Len(runs(a)[i]) : runs(a)[i][k] = "sup2"
            differ(a, b) ==
                {i \in 1..Len(runs(a)) :
                    /\ i <= Len(runs(b))
                    /\ IF i % 2 = 0 THEN RunVal(runs(a)[i]) # RunVal(runs(b)[i])
                       ELSE Lower(runs(a)[i]) # Lower(runs(b)[i])}
            first(a, b) == CHOOSE i \in differ(a, b) : \A k \in differ(a, b) : i <= k
            ahead(a, b) ==
                /\ differ(a, b) # {}
                /\ IF first(a, b) % 2 = 0
                   THEN RunVal(runs(a)[first(a, b)]) < RunVal(runs(b)[first(a, b)])
                   ELSE SeqLess(Lower(runs(a)[first(a, b)]), Lower(runs(b)[first(a, b)]))
        IN  \A i, j \in 1..Len(loc.inner) :
               /\ ~KeyCompareRaises(name(i), name(j))
               /\ (i < j /\ ~fallback(name(i)) /\ ~fallback(name(j)))
                     => ~ahead(name(j), name(i))
               /\ (i < j /\ fallback(name(i)) /\ fallback(name(j)))
                     => ~SeqLess(Lower(name(j)), Lower(name(i)))

\* step 2 has sorted the pages of a directory in which 2.jpg is named after
\* 10.jpg, page2 after page10 and ds2 after DS10, and which holds two names
\* that fall back to the single-string key
C32_SortedNineNames ==
    /\ pc = "loop" /\ progress.current_step = 2 /\ loc.phase = "entry" /\ loc.n = 0
    /\ Len(loc.inner) = 9
    /\ \E i, j \in 1..9 : /\ i < j
                          /\ Name(loc.inner[i]) = nm.jpg2
                          /\ Name(loc.inner[j]) = <<"1", "0">> \o ext.jpg
    /\ \E i, j \in 1..9 : /\ i < j
                          /\ Name(loc.inner[i]) = <<"ds", "2">> \o ext.jpg
                          /\ Name(loc.inner[j]) = <<"DS", "1", "0">> \o ext.jpg
    /\ \E i, j \in 1..9 : /\ i < j
                          /\ Name(loc.inner[i]) = <<"1", "0", "sup2", "3">> \o ext.jpg
                          /\ Name(loc.inner[j]) = <<"2", "sup2", "3">> \o ext.jpg

\* C33: on a tree whose parent directories hold no .jpg directly, once steps
\* 2 to 7 have all run for real and without a failure, the .jpg files of each
\* parent directory are 0001.jpg .. NNNN.jpg, they hold the pages its child
\* directories held, each once, and a page is ahead of another whenever its
\* child directory's name is ahead in natural-sort order, or the two were in
\* one child directory and its own name is ahead
C33_PageOrderPreserved ==
    ( /\ pc = "main" /\ Len(rets) = 7 /\ nfail = 0 /\ ~config.dry_run
      /\ \A i \in 2..7 : rets[i].outcome = "ran"
      /\ \A P \in DOMAIN fs0 : Len(P) = 1 => GlobJpgFiles(fs0, P) = {} )
    => \A P \in {ParentDirs(fs0)[i] : i \in 1..Len(ParentDirs(fs0))} :
          LET orig == {p \in DOMAIN fs0 :
                          /\ Len(p) = 3 /\ IsUnder(p, P) /\ IsFile(fs0, p)
                          /\ Lower(Suffix(Name(p))) = ext.jpg
                          /\ IsDir(fs0, Parent(p)) /\ Name(Parent(p)) \notin SkipDirs}
              N == Cardinality(orig)
              final(i) == P \o <<Fmt04(i) \o ext.jpg>>
              at(p) == {i \in 1..N : IsFile(fs, final(i)) /\ fs[final(i)] = fs0[p]}
              ahead(x, y) ==
                  \/ KeyLess(Name(Parent(x)), Name(Parent(y)))
                  \/ Parent(x) = Parent(y) /\ KeyLess(Name(x), Name(y))
          IN  /\ {Name(q) : q \in GlobJpgFiles(fs, P)} = {Fmt04(i) \o ext.jpg : i \in 1..N}
              /\ \A p \in orig : Cardinality(at(p)) = 1
              /\ \A x, y \in orig :
                    ahead(x, y) => \A i \in at(x), j \in at(y) : i < j

\* C34: whenever step 8's removal of a leaf directory takes a file of that
\* directory away, the archive that stands in the directory's place holds the
\* file as a member, under its name and with its content
C34_DeletedOnlyIfArchived ==
    [][ InLoop(8, "rmtree") =>
           \A p \in DOMAIN fs :
               (IsFile(fs, p) /\ IsUnder(p, loc.src) /\ p \notin DOMAIN fs') =>
                   /\ Exists(fs, loc.dst)
                   /\ \E i \in 1..Len(fs[loc.dst].members) :
                         fs[loc.dst].members[i] = [name |-> Name(p), page |-> fs[p].page] ]_vars

\* C35: step 1 never overwrites: while it converts a file, every file that is
\* there stays with what it holds, and once it has run for real with no
\* failure and no animated GIF passed over, every directory holds as many
\* page images as it held when the step began
C35_ConversionNeverOverwrites ==
    /\ [][ InLoop(1, "item") =>
              \A p \in DOMAIN fs : IsFile(fs, p) => (Exists(fs', p) /\ fs'[p] = fs[p]) ]_vars
    /\ []( ( /\ pc = "main" /\ rets = <<[step |-> 1, outcome |-> "ran"]>>
             /\ nfail = 0 /\ ~config.dry_run
             /\ ~\E r \in log : r.kind = "skip-animated" )
           => \A d \in DOMAIN snap.fs :
                 LET images(f) == {p \in ChildrenOf(f, d) :
                                      IsFile(f, p) /\ Lower(Suffix(Name(p))) \in ImageExts}
                 IN  Cardinality(images(fs)) = Cardinality(images(snap.fs)) )

\* C36: step 8 never replaces or deletes an archive it has produced in the
\* same call: an archive in place stays as it is while the step goes on, and
\* when the step has run for real and without a failure the archives it has
\* produced that exist are as many as the directories it has deleted
C36_ArchivesOfOneRunDistinct ==
    /\ [][ (progress.current_step = 8 /\ pc = "loop") =>
              \A z \in DOMAIN fs :
                  Did("create", z, NoPath) \in performed => (Exists(fs', z) /\ fs'[z] = fs[z]) ]_vars
    /\ []( ( /\ pc = "main" /\ rets # <<>> /\ rets[Len(rets)] = [step |-> 8, outcome |-> "ran"]
             /\ nfail = 0 /\ ~config.dry_run /\ ~firstRun.done )
           => Cardinality({z \in DOMAIN fs : Did("create", z, NoPath) \in performed})
                 = Cardinality({d \in DOMAIN snap.fs : Did("delete", d, NoPath) \in performed
                                                        /\ IsDir(snap.fs, d)}) )

\* C37: step 7 never loses a page: whatever moves have failed, every .jpg
\* file a parent directory held when step 7 was called is, when the step has
\* returned, still a file somewhere under the root with what it held
C37_StepSevenKeepsEveryPage ==
    ( /\ pc = "main" /\ rets # <<>> /\ rets[Len(rets)].step = 7 /\ ~config.dry_run )
    => \A i \in 1..Len(ParentDirs(snap.fs)) :
          \A p \in GlobJpgFiles(snap.fs, ParentDirs(snap.fs)[i]) :
              \E q \in DOMAIN fs : IsFile(fs, q) /\ fs[q].page = snap.fs[p].page

\* C38: when create_backup has produced a snapshot and the run has finished,
\* the entries below the backups directory are the entries that were there
\* when create_backup returned, each with what it held
C38_SnapshotUntouched ==
    ( /\ pc = "done"
      /\ LogRec("info", "backup", BackupPath, NoPath) \in log )
    => LET below(f) == {q \in DOMAIN f : IsUnder(q, SubSeq(BackupPath, 1, 1))} IN
       /\ below(fs) = below(fs0)
       /\ \A q \in below(fs) : fs[q] = fs0[q]

\* C39: when edit_interactively has returned False, the configuration in
\* memory is the one the session began with, up to the run that follows, and
\* what a later save has written is that configuration too
C39_DiscardRestores ==
    edit.ret = "discarded" =>
        /\ config = edit.began
        /\ (pc = "main" /\ ~\E r \in log : r.level = "error") => saved.cfg = edit.began

\* C40: a worker the GUI has started emits finished at most once, and
\* eventually has emitted it once with both method buttons enabled again,
\* whatever way the pipeline ends
C40_WorkerFinishes ==
    /\ [](gui.emitted <= 1)
    /\ (gui.worker # "-") ~> (gui.emitted = 1 /\ gui.buttons)

====
